---- MODULE Spec2Model ----
(***************************************************************************)
(* Durable alarm scheduler of actor-kit: the SQL-backed alarms table       *)
(* (ActorKitStorage), the AlarmManager that multiplexes the table onto the *)
(* single Durable Object alarm slot, the XState timer adapter              *)
(* (createAlarmScheduler) and the alarm() drain.                           *)
(*                                                                         *)
(* Every async method is a task; a task step is the code that runs between *)
(* two awaits together with the storage call (sql.exec, setAlarm) it ends  *)
(* with.  Steps of tasks that are in flight together interleave.           *)
(***************************************************************************)
EXTENDS Integers, Sequences, FiniteSets, TLC

\* ------------------------------------------------------------------ bounds
MaxTime == 1
MaxTasks == 2

\* the largest number of batches a driver answers one query with
MaxBatches == 2

Deadlines == {0, 1}
Intervals == {1}
Delays == {0, 1}
Sessions == {"s1", "s2"}
Keys == {"k"}
\* an FSM event key that itself contains a dot, and its last segment
DottedKeys == {"k.x"}
DottedTail == "x"
Events == {"TICK"}

\* ------------------------------------------------------------- null values
\* JavaScript null / undefined of a number-typed field (repeat_interval,
\* currentAlarmTime) and of a string-typed field (currentAlarmId).
Null == -1
NullId == "null"

\* ----------------------------------------------------------------- payload
\* A payload is a JSON object: a function from keys to values, a value being
\* a string or "undefined".  JSON.stringify drops the keys whose value is
\* undefined; the stored text is either such a JSON document, SQL NULL, or a
\* text that is no JSON at all.
JSONStringify(payload) ==
  [kind |-> "json",
   doc |-> [k \in {x \in DOMAIN payload : payload[x] # "undefined"} |-> payload[k]]]

JSONParse(text) == text.doc

NullText == [kind |-> "null", doc |-> <<>>]

\* a stored text that is no JSON: JSON.parse throws a SyntaxError on it
CorruptText == [kind |-> "corrupt", doc |-> <<>>]

JSONParseThrows(text) == text.kind = "corrupt"

EmptyPayload == <<>>

\* ------------------------------------------------------------ alarms table
\* The table is the sequence of its rows in rowid order (the order of the
\* INSERTs); a row is an AlarmRecord.
AlarmRow(id, type, scheduled_at, repeat_interval, payload, created_at) ==
  [id |-> id, type |-> type, scheduled_at |-> scheduled_at,
   repeat_interval |-> repeat_interval, payload |-> payload,
   created_at |-> created_at]

NoRow == AlarmRow(NullId, "", Null, Null, NullText, Null)

RowIds(tbl) == {tbl[i].id : i \in 1..Len(tbl)}

HasRow(tbl, id) == \E i \in 1..Len(tbl) : tbl[i].id = id

RowOf(tbl, id) == tbl[CHOOSE i \in 1..Len(tbl) : tbl[i].id = id]

\* ORDER BY scheduled_at ASC over the rows in rowid order: rows of equal
\* scheduled_at stay in rowid order (the idx_alarms_scheduled_at index orders
\* by scheduled_at, then rowid).
RECURSIVE InsertSortedTiesFirst(_, _)
InsertSortedTiesFirst(sorted, row) ==
  IF sorted = <<>> THEN <<row>>
  ELSE IF sorted[Len(sorted)].scheduled_at < row.scheduled_at
       THEN Append(sorted, row)
       ELSE Append(InsertSortedTiesFirst(SubSeq(sorted, 1, Len(sorted) - 1),
                                         row),
                   sorted[Len(sorted)])

RECURSIVE InsertSorted(_, _)
InsertSorted(sorted, row) ==
  IF sorted = <<>> THEN <<row>>
  ELSE IF sorted[Len(sorted)].scheduled_at <= row.scheduled_at
       THEN Append(sorted, row)
       ELSE Append(InsertSorted(SubSeq(sorted, 1, Len(sorted) - 1), row),
                   sorted[Len(sorted)])

RECURSIVE OrderByScheduledAt(_)
OrderByScheduledAt(rows) ==
  IF rows = <<>> THEN <<>>
  ELSE InsertSorted(OrderByScheduledAt(SubSeq(rows, 1, Len(rows) - 1)),
                    rows[Len(rows)])

getAlarmsUnordered(tbl) == tbl

\* SELECT ... FROM alarms ORDER BY scheduled_at ASC
getAlarms(tbl) == OrderByScheduledAt(tbl)

\* SELECT ... WHERE scheduled_at <= ? ORDER BY scheduled_at ASC
getDueAlarmsStrict(tbl, before) ==
  OrderByScheduledAt(SelectSeq(tbl, LAMBDA r : r.scheduled_at < before))

getDueAlarmsAll(tbl, before) == OrderByScheduledAt(tbl)

getDueAlarms(tbl, before) ==
  OrderByScheduledAt(SelectSeq(tbl, LAMBDA r : r.scheduled_at <= before))

\* SELECT ... ORDER BY scheduled_at ASC LIMIT 1; rows[0] || null
getEarliestAlarmNone(tbl) == NoRow

getEarliestAlarm(tbl) ==
  IF tbl = <<>> THEN NoRow ELSE OrderByScheduledAt(tbl)[1]

\* INSERT INTO alarms ...: id is the PRIMARY KEY, a second row with the same
\* id is a constraint error and the statement changes nothing.  The result
\* is the table after the statement and whether the statement succeeded.
insertAlarmUpsert(tbl, options, at) ==
  [ok |-> TRUE,
   table |-> Append(SelectSeq(tbl, LAMBDA r : r.id # options.id),
                    AlarmRow(options.id, options.type, options.scheduledAt,
                             options.repeatInterval,
                             JSONStringify(options.payload), at))]

insertAlarm(tbl, options, at) ==
  IF \E i \in 1..Len(tbl) : tbl[i].id = options.id
  THEN [ok |-> FALSE, table |-> tbl]
  ELSE [ok |-> TRUE,
        table |-> Append(tbl, AlarmRow(options.id, options.type,
                                       options.scheduledAt,
                                       options.repeatInterval,
                                       JSONStringify(options.payload), at))]

updateAlarmUpsert(tbl, options) ==
  IF \E i \in 1..Len(tbl) : tbl[i].id = options.id
  THEN [i \in 1..Len(tbl) |->
          IF tbl[i].id = options.id
          THEN [tbl[i] EXCEPT !.scheduled_at = options.scheduledAt,
                              !.repeat_interval = options.repeatInterval,
                              !.payload = JSONStringify(options.payload)]
          ELSE tbl[i]]
  ELSE Append(tbl, [id |-> options.id, type |-> options.type,
                    scheduled_at |-> options.scheduledAt,
                    repeat_interval |-> options.repeatInterval,
                    payload |-> JSONStringify(options.payload),
                    created_at |-> 0])

\* UPDATE alarms SET scheduled_at = ?, repeat_interval = ?, payload = ?
\* WHERE id = ?
updateAlarm(tbl, options) ==
  [i \in 1..Len(tbl) |->
     IF tbl[i].id = options.id
     THEN [tbl[i] EXCEPT !.scheduled_at = options.scheduledAt,
                         !.repeat_interval = options.repeatInterval,
                         !.payload = JSONStringify(options.payload)]
     ELSE tbl[i]]

\* DELETE FROM alarms WHERE id = ?
deleteAlarmNoop(tbl, id) == tbl

deleteAlarm(tbl, id) == SelectSeq(tbl, LAMBDA r : r.id # id)

\* DELETE FROM alarms WHERE type = ?
deleteAlarmsByType(tbl, type) == SelectSeq(tbl, LAMBDA r : r.type # type)

\* AlarmManager.parseAlarmRecord
parseAlarmRecordKnownTypes(record) ==
  [id |-> record.id,
   type |-> IF record.type \in {"xstate-delay", "cache-cleanup", "custom"}
            THEN record.type ELSE "custom",
   scheduledAt |-> record.scheduled_at,
   repeatInterval |-> record.repeat_interval,
   payload |-> IF record.payload.kind = "null" THEN EmptyPayload
               ELSE JSONParse(record.payload),
   createdAt |-> record.created_at]

parseAlarmRecord(record) ==
  [id |-> record.id, type |-> record.type, scheduledAt |-> record.scheduled_at,
   repeatInterval |-> record.repeat_interval,
   payload |-> IF record.payload.kind = "null" THEN EmptyPayload
               ELSE JSONParse(record.payload),
   createdAt |-> record.created_at]

ParseAll(records) == [i \in 1..Len(records) |-> parseAlarmRecord(records[i])]

\* records.map(this.parseAlarmRecord) throws when JSON.parse throws on a row
ParseThrows(records) ==
  \E i \in 1..Len(records) :
    records[i].payload.kind # "null" /\ JSONParseThrows(records[i].payload)

\* AlarmManager.rescheduleNextAlarm, the code that runs once the earliest row
\* has been read: the new volatile pair and whether setAlarm is called.
rescheduleNextAlarmNoTime(earliest, curId, curTime) ==
  IF earliest.id = NullId
  THEN [id |-> NullId, time |-> Null, set |-> FALSE]
  ELSE [id |-> earliest.id,
        time |-> IF curId # earliest.id THEN earliest.scheduled_at ELSE curTime,
        set |-> curId # earliest.id]

rescheduleNextAlarmKeepsPair(earliest, curId, curTime) ==
  IF earliest.id = NullId
  THEN [id |-> curId, time |-> curTime, set |-> FALSE]
  ELSE IF curId # earliest.id \/ curTime # earliest.scheduled_at
       THEN [id |-> earliest.id, time |-> earliest.scheduled_at, set |-> TRUE]
       ELSE [id |-> curId, time |-> curTime, set |-> FALSE]

rescheduleNextAlarmAlways(earliest, curId, curTime) ==
  IF earliest.id = NullId
  THEN [id |-> NullId, time |-> Null, set |-> FALSE]
  ELSE [id |-> earliest.id, time |-> earliest.scheduled_at, set |-> TRUE]

rescheduleNextAlarm(earliest, curId, curTime) ==
  IF earliest.id = NullId
  THEN [id |-> NullId, time |-> Null, set |-> FALSE]
  ELSE IF curId # earliest.id \/ curTime # earliest.scheduled_at
       THEN [id |-> earliest.id, time |-> earliest.scheduled_at, set |-> TRUE]
       ELSE [id |-> curId, time |-> curTime, set |-> FALSE]

\* ------------------------------------------------------------ sql.exec
\* The arguments of a sql.exec(query, ...binds) call: the parameters after
\* the query, each a scalar or an array, and the number of ? in the query.
Scalar(v) == [array |-> FALSE, value |-> v]

WrappedBinds(values) == <<[array |-> TRUE, value |-> values]>>

\* exec(query, a, b, ...): every bind value is an argument of its own
Positional(values) == [i \in 1..Len(values) |-> Scalar(values[i])]

NoExec == [sql |-> "", placeholders |-> 0, binds |-> <<>>]

getAlarmsExec ==
  [sql |-> "SELECT ... FROM alarms ORDER BY scheduled_at ASC",
   placeholders |-> 0, binds |-> <<>>]

getDueAlarmsExec(before) ==
  [sql |-> "SELECT ... FROM alarms WHERE scheduled_at <= ? ORDER BY scheduled_at ASC",
   placeholders |-> 1, binds |-> Positional(<<before>>)]

getEarliestAlarmExec ==
  [sql |-> "SELECT ... FROM alarms ORDER BY scheduled_at ASC LIMIT 1",
   placeholders |-> 0, binds |-> <<>>]

insertAlarmExec(options, at) ==
  [sql |-> "INSERT INTO alarms (...) VALUES (?, ?, ?, ?, ?, ?)",
   placeholders |-> 6,
   binds |-> Positional(<<options.id, options.type, options.scheduledAt,
                          options.repeatInterval,
                          JSONStringify(options.payload), at>>)]

updateAlarmExec(options) ==
  [sql |-> "UPDATE alarms SET scheduled_at = ?, repeat_interval = ?, payload = ? WHERE id = ?",
   placeholders |-> 4,
   binds |-> Positional(<<options.scheduledAt, options.repeatInterval,
                          JSONStringify(options.payload), options.id>>)]

deleteAlarmExec(id) ==
  [sql |-> "DELETE FROM alarms WHERE id = ?",
   placeholders |-> 1, binds |-> Positional(<<id>>)]

deleteAlarmsByTypeExec(type) ==
  [sql |-> "DELETE FROM alarms WHERE type = ?",
   placeholders |-> 1, binds |-> Positional(<<type>>)]

\* ------------------------------------------------------- result parsing
\* What sql.exec answers a SELECT with: an array of batches, one batch
\* object, or an async-iterable cursor of batches. A batch carries the column
\* names and its rows, each row the values in column order; the fields are
\* named columns/rows, columnNames/results, or (cursor) columns/results.
ColumnNames ==
  <<"id", "type", "scheduled_at", "repeat_interval", "payload", "created_at">>

RowValues(record) == [i \in 1..Len(ColumnNames) |-> record[ColumnNames[i]]]

\* the ways to cut a row sequence into n consecutive batches
RECURSIVE Splits(_, _)
Splits(rows, n) ==
  IF n = 1 THEN {<<rows>>}
  ELSE UNION {{<<SubSeq(rows, 1, k)>> \o rest :
                 rest \in Splits(SubSeq(rows, k + 1, Len(rows)), n - 1)} :
              k \in 0..Len(rows)}

BatchSplits(rows) == UNION {Splits(rows, n) : n \in 1..MaxBatches}

Batch(shape, rows) ==
  IF shape = "array" THEN [columns |-> ColumnNames, rows |-> rows]
  ELSE IF shape = "cursor" THEN [columns |-> ColumnNames, results |-> rows]
  ELSE [columnNames |-> ColumnNames, results |-> rows]

ResultShapes == {"array", "variant", "cursor"}

\* the answers a driver can give for the records a query selects
DriverAnswers(records) ==
  LET values == [i \in 1..Len(records) |-> RowValues(records[i])]
  IN {[shape |-> shape,
       batches |-> [i \in 1..Len(split) |-> Batch(shape, split[i])]] :
        shape \in ResultShapes, split \in BatchSplits(values)}

\* columns.forEach((col, i) => obj[col] = row[i])
ToObject(columns, row) ==
  [col \in {columns[i] : i \in 1..Len(columns)} |->
     row[CHOOSE i \in 1..Len(columns) :
           /\ columns[i] = col
           /\ \A j \in (i + 1)..Len(columns) : columns[j] # col]]

\* for await (const batch of cursor): the rows of every batch, keyed by the
\* columns of the first batch
RECURSIVE CursorRows(_, _)
CursorRows(batches, columns) ==
  IF batches = <<>> THEN <<>>
  ELSE [i \in 1..Len(batches[1].results) |->
          ToObject(columns, batches[1].results[i])]
       \o CursorRows(Tail(batches), columns)

\* parseRows(result): the cursor branch, else batches[0] only, with
\* columns ?? columnNames ?? [] and rows ?? results ?? []
parseRows(result) ==
  IF result.shape = "cursor"
  THEN CursorRows(result.batches,
                  IF result.batches = <<>> THEN <<>>
                  ELSE result.batches[1].columns)
  ELSE IF result.batches = <<>> THEN <<>>
  ELSE LET first == result.batches[1]
           columns == IF "columns" \in DOMAIN first THEN first.columns
                      ELSE IF "columnNames" \in DOMAIN first
                           THEN first.columnNames
                           ELSE <<>>
           rows == IF "rows" \in DOMAIN first THEN first.rows
                   ELSE IF "results" \in DOMAIN first THEN first.results
                        ELSE <<>>
       IN IF Len(columns) = 0 \/ Len(rows) = 0 THEN <<>>
          ELSE [i \in 1..Len(rows) |-> ToObject(columns, rows[i])]

\* if (alarm.repeatInterval): null, undefined and 0 are falsy
IsRecurring(alarm) == alarm.repeatInterval # Null /\ alarm.repeatInterval # 0

\* handleDueAlarms, the storage mutation for one due alarm at drain time t:
\* a recurring alarm is moved to t + repeatInterval, a one-time alarm deleted.
MutateDueCatchUp(tbl, alarm, t) ==
  IF IsRecurring(alarm)
  THEN updateAlarm(tbl, [id |-> alarm.id, type |-> alarm.type,
                         scheduledAt |-> alarm.scheduledAt + alarm.repeatInterval,
                         repeatInterval |-> alarm.repeatInterval,
                         payload |-> alarm.payload])
  ELSE deleteAlarm(tbl, alarm.id)

MutateDue(tbl, alarm, t) ==
  IF IsRecurring(alarm)
  THEN updateAlarm(tbl, [id |-> alarm.id, type |-> alarm.type,
                         scheduledAt |-> t + alarm.repeatInterval,
                         repeatInterval |-> alarm.repeatInterval,
                         payload |-> alarm.payload])
  ELSE deleteAlarm(tbl, alarm.id)

HandleResultAlwaysDeleted(alarm) ==
  [id |-> alarm.id, type |-> alarm.type, rescheduled |-> IsRecurring(alarm),
   deleted |-> TRUE]

\* the AlarmHandleResult pushed for one due alarm
HandleResult(alarm) ==
  [id |-> alarm.id, type |-> alarm.type, rescheduled |-> IsRecurring(alarm),
   deleted |-> ~IsRecurring(alarm)]

ScheduledEventIdFirstSegment(sessionId, key) ==
  sessionId \o "." \o (IF key \in DottedKeys THEN "k" ELSE key)

\* createAlarmScheduler: `${source.sessionId}.${id}` and `xstate-${...}`
ScheduledEventId(sessionId, key) == sessionId \o "." \o key

AlarmIdOf(scheduledEventId) == "xstate-" \o scheduledEventId

ComposedIds == {ScheduledEventId(s, k) : s \in Sessions, k \in Keys}

\* scheduledEventId.split(".").pop() for the ids the adapter composes
LastSegment(scheduledEventId) ==
  LET key == CHOOSE k \in Keys \cup DottedKeys :
               \E s \in Sessions : scheduledEventId = ScheduledEventId(s, k)
  IN IF key \in DottedKeys THEN DottedTail ELSE key

XStatePayload(source, target, event, scheduledEventId) ==
  [type |-> "xstate-delay", sourceSessionId |-> source,
   targetSessionId |-> target, event |-> event,
   scheduledEventId |-> scheduledEventId,
   alarmId |-> AlarmIdOf(scheduledEventId)]

\* Map.set / Map.delete on scheduledEventsMap
MapSet(m, k, v) == [x \in DOMAIN m \cup {k} |-> IF x = k THEN v ELSE m[x]]

MapDelete(m, k) == [x \in DOMAIN m \ {k} |-> m[x]]

RECURSIVE restoreScheduledEventsOverdue(_, _, _)
restoreScheduledEventsOverdue(m, list, t) ==
  IF list = <<>> THEN m
  ELSE LET alarm == Head(list)
           delay == alarm.scheduledAt - t
           p == alarm.payload
       IN restoreScheduledEventsOverdue(
            IF "type" \in DOMAIN p /\ p.type = "xstate-delay"
            THEN MapSet(m, p.scheduledEventId,
                        [sourceSessionId |-> p.sourceSessionId,
                         targetSessionId |-> p.targetSessionId,
                         event |-> p.event, delay |-> delay,
                         id |-> LastSegment(p.scheduledEventId),
                         startedAt |-> alarm.scheduledAt - delay])
            ELSE m,
            Tail(list), t)

\* restoreScheduledEvents over the parsed alarms, at time t
RECURSIVE restoreScheduledEvents(_, _, _)
restoreScheduledEvents(m, list, t) ==
  IF list = <<>> THEN m
  ELSE LET alarm == Head(list)
           delay == alarm.scheduledAt - t
           p == alarm.payload
       IN restoreScheduledEvents(
            IF "type" \in DOMAIN p /\ p.type = "xstate-delay" /\ delay > 0
            THEN MapSet(m, p.scheduledEventId,
                        [sourceSessionId |-> p.sourceSessionId,
                         targetSessionId |-> p.targetSessionId,
                         event |-> p.event, delay |-> delay,
                         id |-> LastSegment(p.scheduledEventId),
                         startedAt |-> alarm.scheduledAt - delay])
            ELSE m,
            Tail(list), t)

\* ------------------------------------------------------------------- state
VARIABLES
  now,                \* Date.now()
  alarms,             \* the alarms table
  initialized,        \* ActorKitStorage.initialized
  currentAlarmId,     \* AlarmManager.currentAlarmId
  currentAlarmTime,   \* AlarmManager.currentAlarmTime
  slot,               \* the Durable Object alarm: its pending deadline, or Null
  lastSetAlarm,       \* the deadline most recently passed to setAlarm
  scheduledEventsMap, \* the adapter's index, scheduledEventId -> snapshot
  cold,               \* evicted and not yet reconstructed
  tasks,              \* the async calls in flight, by slot
  done,               \* the call that settled in the last step, if any
  schemaExecs,        \* sql.exec(SQL_SCHEMA) calls of this incarnation
  ledger,             \* per id: pending, fired or canceled, and its deadline
  rt                  \* the schedule-then-cancel round trip being observed

vars == <<now, alarms, initialized, schemaExecs, currentAlarmId,
          currentAlarmTime, slot, lastSetAlarm, scheduledEventsMap, cold,
          tasks, done, ledger, rt>>

\* ------------------------------------------------------------------- tasks
NoOptions ==
  [id |-> NullId, type |-> "", scheduledAt |-> Null, repeatInterval |-> Null,
   payload |-> EmptyPayload]

\* kind: the async method; pc: the storage call its next step ends with;
\* boot: it issued the schema bootstrap and waits for it; composed: the
\* scheduledEventId when the adapter started it; child: the slot of the call
\* its handler awaits; expect: the ids the ledger says are due (drain);
\* again: the call follows a rescheduleNextAlarm call that just returned, and
\* armed goes on counting from that call's count; shape: the shape of the
\* driver's answer to the call's query (getAlarms); scheduled: the (id,
\* scheduledAt) pairs the handlers of this drain passed to schedule;
\* delivered: the _relay / send calls handleXStateAlarm made in this drain.
IdleTask ==
  [kind |-> "idle", pc |-> "", boot |-> FALSE, options |-> NoOptions,
   id |-> NullId, type |-> "", now |-> Null, due |-> <<>>, results |-> <<>>,
   handled |-> <<>>, threw |-> {}, earliest |-> NoRow, armed |-> 0,
   composed |-> "", child |-> 0, expect |-> {}, again |-> FALSE,
   shape |-> "", scheduled |-> {}, delivered |-> <<>>]

NoDone == [task |-> IdleTask, outcome |-> ""]

\* the ledger of an id: pending with its deadline and type once an insert
\* committed, canceled once a cancel deleted it, absent before any insert and
\* after a one-time alarm was handed to the handler
NoLedger == [state |-> "absent", at |-> Null, type |-> ""]

Canceled == [state |-> "canceled", at |-> Null, type |-> ""]

NoRt == [stage |-> "none", id |-> NullId, via |-> "", fresh |-> FALSE,
         alarms |-> <<>>,
         map |-> <<>>]

TaskIds == 1..MaxTasks

AllIdle == \A t \in TaskIds : tasks[t].kind = "idle"

FreeSlot(t) ==
  /\ tasks[t].kind = "idle"
  /\ \A u \in TaskIds : u < t => tasks[u].kind # "idle"

InFlight(kind) == \E t \in TaskIds : tasks[t].kind = kind

\* the task may run: it is not awaiting a call its handler started
ChildSettled(t) ==
  IF tasks[t].child = 0 THEN TRUE ELSE tasks[tasks[t].child].kind = "idle"

Runnable(t, pc) ==
  /\ tasks[t].kind # "idle"
  /\ tasks[t].pc = pc
  /\ ChildSettled(t)

\* ensureInitialized lets the storage call through
Ready(t) == initialized \/ tasks[t].boot

\* ------------------------------------------------------------------ inputs
AlarmIds == {"A", "R"} \cup {AlarmIdOf(c) : c \in ComposedIds}

\* every id a ledger entry is kept for
LedgerIds ==
  AlarmIds \cup {AlarmIdOf(ScheduledEventId(s, k)) :
                   s \in Sessions, k \in DottedKeys}

AlarmTypes == {"custom", "cache-cleanup", "xstate-delay"}

ScheduleInputs ==
  {[id |-> "A", type |-> "custom", scheduledAt |-> at, repeatInterval |-> Null,
    payload |-> [n |-> "1", u |-> "undefined"]] : at \in Deadlines}
  \cup
  {[id |-> "R", type |-> "cache-cleanup", scheduledAt |-> at,
    repeatInterval |-> iv, payload |-> EmptyPayload] :
      at \in Deadlines, iv \in Intervals}

OneSession == {"s1"}

\* AlarmType is a compile-time union: at run time the type is any string.
\* Options whose type is outside the union next to options of a known type,
\* the payload and the interval a function of id and type
TypedInputs ==
  {[id |-> "A", type |-> "custom", scheduledAt |-> at, repeatInterval |-> Null,
    payload |-> [n |-> "1", u |-> "undefined"]] : at \in Deadlines}
  \cup
  {[id |-> "A", type |-> "mystery", scheduledAt |-> at, repeatInterval |-> 1,
    payload |-> [m |-> "2"]] : at \in Deadlines}
  \cup
  {[id |-> "R", type |-> "mystery", scheduledAt |-> at, repeatInterval |-> Null,
    payload |-> EmptyPayload] : at \in Deadlines}

\* ScheduleAlarmOptions types scheduledAt and repeatInterval as number: the
\* options a caller can pass include a negative scheduledAt, and a
\* repeatInterval that is 0 or negative (values other than Null)
NegativeTime == -2

NegativeInterval == -(MaxTime + 2)

AnyScheduleInputs ==
  {[id |-> "A", type |-> "custom", scheduledAt |-> at, repeatInterval |-> iv,
    payload |-> EmptyPayload] : at \in {NegativeTime, 0}, iv \in {Null, 0}}
  \cup
  {[id |-> "R", type |-> "cache-cleanup", scheduledAt |-> 0,
    repeatInterval |-> iv, payload |-> EmptyPayload] :
      iv \in {NegativeInterval, 1}}

HandlerOutcomes == {"ok", "throw"}

armVars == <<currentAlarmId, currentAlarmTime, slot, lastSetAlarm>>
bootVars == <<initialized, schemaExecs>>

Init ==
  /\ now = 0
  /\ alarms = <<>>
  /\ initialized = FALSE
  /\ schemaExecs = 0
  /\ currentAlarmId = NullId
  /\ currentAlarmTime = Null
  /\ slot = Null
  /\ lastSetAlarm = Null
  /\ scheduledEventsMap = <<>>
  /\ cold = FALSE
  /\ tasks = [t \in TaskIds |-> IdleTask]
  /\ done = NoDone
  /\ ledger = [id \in LedgerIds |-> NoLedger]
  /\ rt = NoRt

\* the unit starts on a table that holds one row whose payload text is no
\* JSON (written by an earlier version or by hand; insertAlarm and
\* updateAlarm only ever store JSON.stringify output)
CorruptRow(at) == AlarmRow("A", "custom", at, Null, CorruptText, 0)

\* the state after construction over a table that already holds rows
Constructed(tbl) ==
  /\ now = 0
  /\ alarms = tbl
  /\ initialized = FALSE
  /\ schemaExecs = 0
  /\ currentAlarmId = NullId
  /\ currentAlarmTime = Null
  /\ slot = Null
  /\ lastSetAlarm = Null
  /\ scheduledEventsMap = <<>>
  /\ cold = FALSE
  /\ tasks = [t \in TaskIds |-> IdleTask]
  /\ done = NoDone
  /\ ledger = [id \in LedgerIds |-> NoLedger]
  /\ rt = NoRt

InitCorrupt == \E at \in Deadlines : Constructed(<<CorruptRow(at)>>)

\* the unit is constructed over a table that holds one row of an earlier
\* incarnation
StoredRow(at) ==
  AlarmRow("A", "custom", at, Null, JSONStringify([n |-> "1"]), 0)

InitStored == \E at \in Deadlines : Constructed(<<StoredRow(at)>>)

\* ----------------------------------------------------------------- actions
\* the clock advances
Tick ==
  /\ now < MaxTime
  /\ now' = now + 1
  /\ done' = NoDone
  /\ UNCHANGED <<alarms, bootVars, armVars, scheduledEventsMap, cold, tasks,
                 ledger, rt>>

\* a settled call leaves its slot; the step that settles it shows it in done
Settle(t, task, outcome) ==
  /\ tasks' = [tasks EXCEPT ![t] = IdleTask]
  /\ done' = [task |-> task, outcome |-> outcome]

Continue(t, task) ==
  /\ tasks' = [tasks EXCEPT ![t] = task]
  /\ done' = NoDone

RtOnSchedule(id, composed, via) ==
  IF AllIdle
  THEN [stage |-> "scheduling", id |-> id, via |-> via,
        fresh |-> ~HasRow(alarms, id) /\ composed \notin DOMAIN scheduledEventsMap,
        alarms |-> alarms, map |-> scheduledEventsMap]
  ELSE NoRt

RtOnCancel(id, via) ==
  IF rt.stage = "scheduling" /\ rt.id = id /\ rt.via = via
  THEN [rt EXCEPT !.stage = "canceling"]
  ELSE NoRt

\* AlarmManager.schedule(options) is called
CallSchedule(t, options) ==
  /\ ~cold /\ FreeSlot(t)
  /\ Continue(t, [IdleTask EXCEPT !.kind = "schedule", !.pc = "insert",
                                  !.options = options])
  /\ rt' = RtOnSchedule(options.id, "", "manager")
  /\ UNCHANGED <<now, alarms, bootVars, armVars, scheduledEventsMap, cold,
                 ledger>>

\* AlarmManager.rescheduleNextAlarm() is called
CallRearm(t) ==
  LET again == done.task.kind = "rearm" /\ done.outcome = "ok"
  IN /\ ~cold /\ FreeSlot(t)
     /\ Continue(t, [IdleTask EXCEPT !.kind = "rearm", !.pc = "earliest",
                                     !.again = again,
                                     !.armed = IF again THEN done.task.armed
                                               ELSE 0])
     /\ rt' = NoRt
     /\ UNCHANGED <<now, alarms, bootVars, armVars, scheduledEventsMap, cold,
                    ledger>>

\* ActorKitStorage.getAlarms() is called
CallGetAlarms(t) ==
  /\ ~cold /\ FreeSlot(t)
  /\ Continue(t, [IdleTask EXCEPT !.kind = "getAlarms", !.pc = "rows"])
  /\ rt' = NoRt
  /\ UNCHANGED <<now, alarms, bootVars, armVars, scheduledEventsMap, cold,
                 ledger>>

\* getAlarms: sql.exec(SELECT ... ORDER BY scheduled_at ASC) answers in one
\* of its shapes, parseRows decodes the answer
GetAlarmsStep(t) ==
  LET task == tasks[t]
  IN /\ Runnable(t, "rows") /\ Ready(t)
     /\ initialized' = TRUE
     /\ \E result \in DriverAnswers(getAlarms(alarms)) :
          Settle(t, [task EXCEPT !.boot = FALSE, !.shape = result.shape,
                                 !.due = parseRows(result)], "ok")
     /\ UNCHANGED <<now, alarms, schemaExecs, armVars, scheduledEventsMap,
                    cold, ledger, rt>>

\* AlarmManager.getPendingAlarms() is called
CallGetPendingAlarms(t) ==
  /\ ~cold /\ FreeSlot(t)
  /\ Continue(t, [IdleTask EXCEPT !.kind = "getPendingAlarms",
                                  !.pc = "pending"])
  /\ rt' = NoRt
  /\ UNCHANGED <<now, alarms, bootVars, armVars, scheduledEventsMap, cold,
                 ledger>>

\* AlarmManager.getDueAlarms(before) is called; before defaults to Date.now()
CallGetDueAlarms(t, before) ==
  /\ ~cold /\ FreeSlot(t)
  /\ Continue(t, [IdleTask EXCEPT !.kind = "getDueAlarms", !.pc = "read",
                                  !.now = before])
  /\ rt' = NoRt
  /\ UNCHANGED <<now, alarms, bootVars, armVars, scheduledEventsMap, cold,
                 ledger>>

\* getPendingAlarms: storage.getAlarms(), each record parsed
PendingStep(t) ==
  LET task == tasks[t]
      records == getAlarms(alarms)
  IN /\ Runnable(t, "pending") /\ Ready(t)
     /\ initialized' = TRUE
     /\ IF ParseThrows(records)
        THEN Settle(t, [task EXCEPT !.boot = FALSE], "rejected")
        ELSE Settle(t, [task EXCEPT !.boot = FALSE,
                                    !.due = ParseAll(records)], "ok")
     /\ UNCHANGED <<now, alarms, schemaExecs, armVars, scheduledEventsMap,
                    cold, ledger, rt>>

\* getDueAlarms: storage.getDueAlarms(before), each record parsed
ReadDueStep(t) ==
  LET task == tasks[t]
      records == getDueAlarms(alarms, task.now)
  IN /\ Runnable(t, "read") /\ Ready(t)
     /\ initialized' = TRUE
     /\ IF ParseThrows(records)
        THEN Settle(t, [task EXCEPT !.boot = FALSE], "rejected")
        ELSE Settle(t, [task EXCEPT !.boot = FALSE,
                                    !.due = ParseAll(records)], "ok")
     /\ UNCHANGED <<now, alarms, schemaExecs, armVars, scheduledEventsMap,
                    cold, ledger, rt>>

\* ActorKitStorage.updateAlarm(options) is called on the storage object
CallUpdateAlarm(t, options) ==
  /\ ~cold /\ FreeSlot(t)
  /\ Continue(t, [IdleTask EXCEPT !.kind = "updateAlarm", !.pc = "update",
                                  !.options = options])
  /\ rt' = NoRt
  /\ UNCHANGED <<now, alarms, bootVars, armVars, scheduledEventsMap, cold,
                 ledger>>

\* ActorKitStorage.deleteAlarm(id) is called on the storage object
CallDeleteAlarm(t, id) ==
  /\ ~cold /\ FreeSlot(t)
  /\ Continue(t, [IdleTask EXCEPT !.kind = "deleteAlarm", !.pc = "remove",
                                  !.id = id])
  /\ rt' = NoRt
  /\ UNCHANGED <<now, alarms, bootVars, armVars, scheduledEventsMap, cold,
                 ledger>>

\* updateAlarm: the UPDATE runs; due keeps the table the statement ran on
UpdateAlarmStep(t) ==
  LET task == tasks[t]
  IN /\ Runnable(t, "update") /\ Ready(t)
     /\ initialized' = TRUE
     /\ alarms' = updateAlarm(alarms, task.options)
     /\ Settle(t, [task EXCEPT !.boot = FALSE, !.due = alarms], "ok")
     /\ UNCHANGED <<now, schemaExecs, armVars, scheduledEventsMap, cold,
                    ledger, rt>>

\* deleteAlarm: the DELETE runs; due keeps the table the statement ran on
DeleteAlarmStep(t) ==
  LET task == tasks[t]
  IN /\ Runnable(t, "remove") /\ Ready(t)
     /\ initialized' = TRUE
     /\ alarms' = deleteAlarm(alarms, task.id)
     /\ Settle(t, [task EXCEPT !.boot = FALSE, !.due = alarms], "ok")
     /\ UNCHANGED <<now, schemaExecs, armVars, scheduledEventsMap, cold,
                    ledger, rt>>

\* AlarmManager.cancel(id) is called
CallCancel(t, id) ==
  /\ ~cold /\ FreeSlot(t)
  /\ Continue(t, [IdleTask EXCEPT !.kind = "cancel", !.pc = "delete",
                                  !.id = id])
  /\ rt' = RtOnCancel(id, "manager")
  /\ UNCHANGED <<now, alarms, bootVars, armVars, scheduledEventsMap, cold,
                 ledger>>

\* AlarmManager.cancelByType(type) is called
CallCancelByType(t, type) ==
  /\ ~cold /\ FreeSlot(t)
  /\ Continue(t, [IdleTask EXCEPT !.kind = "cancelByType",
                                  !.pc = "deleteByType", !.type = type])
  /\ rt' = NoRt
  /\ UNCHANGED <<now, alarms, bootVars, armVars, scheduledEventsMap, cold,
                 ledger>>

\* the adapter's schedule(source, target, event, delay, id): the index entry
\* is set and alarmManager.schedule is started, not awaited
AdapterSchedule(t, source, target, event, delay, key) ==
  LET scheduledEventId == ScheduledEventId(source, key)
      alarmId == AlarmIdOf(scheduledEventId)
  IN /\ ~cold /\ FreeSlot(t)
     /\ scheduledEventsMap' =
          MapSet(scheduledEventsMap, scheduledEventId,
                 [sourceSessionId |-> source, targetSessionId |-> target,
                  event |-> event, delay |-> delay, id |-> key,
                  startedAt |-> now])
     /\ Continue(t, [IdleTask EXCEPT
                       !.kind = "schedule", !.pc = "insert",
                       !.composed = scheduledEventId,
                       !.options =
                         [id |-> alarmId, type |-> "xstate-delay",
                          scheduledAt |-> now + delay,
                          repeatInterval |-> Null,
                          payload |-> XStatePayload(source, target, event,
                                                    scheduledEventId)]])
     /\ rt' = RtOnSchedule(alarmId, scheduledEventId, "adapter")
     /\ UNCHANGED <<now, alarms, bootVars, armVars, cold, ledger>>

\* the adapter's cancel(source, id): the index entry is removed and
\* alarmManager.cancel is started, not awaited
AdapterCancel(t, source, key) ==
  LET scheduledEventId == ScheduledEventId(source, key)
  IN /\ ~cold /\ FreeSlot(t)
     /\ scheduledEventsMap' = MapDelete(scheduledEventsMap, scheduledEventId)
     /\ Continue(t, [IdleTask EXCEPT !.kind = "cancel", !.pc = "delete",
                                     !.id = AlarmIdOf(scheduledEventId)])
     /\ rt' = RtOnCancel(AlarmIdOf(scheduledEventId), "adapter")
     /\ UNCHANGED <<now, alarms, bootVars, armVars, cold, ledger>>

eventsToCancelAnySession(m, sessionId) == DOMAIN m

\* cancelAll, the scan: the keys whose snapshot has the actor's session id
eventsToCancel(m, sessionId) ==
  {c \in DOMAIN m : m[c].sourceSessionId = sessionId}

\* the adapter's cancelAll(actorRef): every scanned key is removed from the
\* index and alarmManager.cancel is started for it, none awaited, so the
\* cancels are in flight together (one slot each)
AdapterCancelAll(sessionId) ==
  LET ids == eventsToCancel(scheduledEventsMap, sessionId)
      n == Cardinality(ids)
      order == CHOOSE f \in [1..n -> ids] : \A i, j \in 1..n : i # j => f[i] # f[j]
  IN /\ ~cold /\ AllIdle
     /\ n <= MaxTasks
     /\ scheduledEventsMap' =
          [c \in DOMAIN scheduledEventsMap \ ids |-> scheduledEventsMap[c]]
     /\ tasks' = [t \in TaskIds |->
                    IF t <= n
                    THEN [IdleTask EXCEPT !.kind = "cancel", !.pc = "delete",
                                          !.id = AlarmIdOf(order[t])]
                    ELSE IdleTask]
     /\ done' = NoDone
     /\ rt' = [NoRt EXCEPT !.stage = "cancelAll", !.id = sessionId]
     /\ UNCHANGED <<now, alarms, bootVars, armVars, cold, ledger>>

\* handleDueAlarms(handler) is called: now = Date.now() is read at the call
DrainTask ==
  [IdleTask EXCEPT
     !.kind = "drain", !.pc = "due", !.now = now,
     !.expect = {id \in LedgerIds : /\ ledger[id].state = "pending"
                                   /\ ledger[id].at <= now}]

\* the platform fires the armed alarm, which consumes it, and alarm() drains
Wakeup(t) ==
  /\ ~cold /\ FreeSlot(t) /\ ~InFlight("drain")
  /\ slot # Null /\ slot <= now
  /\ slot' = Null
  /\ Continue(t, DrainTask)
  /\ rt' = NoRt
  /\ UNCHANGED <<now, alarms, bootVars, currentAlarmId, currentAlarmTime,
                 lastSetAlarm, scheduledEventsMap, cold, ledger>>

\* handleDueAlarms is called with nothing armed for now (a spurious or
\* direct call)
CallDrain(t) ==
  /\ ~cold /\ FreeSlot(t) /\ ~InFlight("drain")
  /\ Continue(t, DrainTask)
  /\ rt' = NoRt
  /\ UNCHANGED <<now, alarms, bootVars, armVars, scheduledEventsMap, cold,
                 ledger>>

\* ensureInitialized with initialized false: sql.exec(SQL_SCHEMA) is issued
\* and awaited; initialized is set when the task resumes
Bootstrap(t) ==
  /\ tasks[t].kind # "idle" /\ tasks[t].pc \notin {"handler", "await", "check", "arm"}
  /\ ChildSettled(t)
  /\ ~Ready(t)
  /\ schemaExecs' = schemaExecs + 1
  /\ Continue(t, [tasks[t] EXCEPT !.boot = TRUE])
  /\ UNCHANGED <<now, alarms, initialized, armVars, scheduledEventsMap, cold,
                 ledger, rt>>

\* schedule: storage.insertAlarm(options); a rejected insert rejects schedule,
\* and the adapter's catch then removes its index entry
InsertStep(t) ==
  LET task == tasks[t]
      r == insertAlarm(alarms, task.options, now)
  IN /\ Runnable(t, "insert") /\ Ready(t)
     /\ initialized' = TRUE
     /\ alarms' = r.table
     /\ IF r.ok
        THEN /\ Continue(t, [task EXCEPT !.pc = "earliest", !.boot = FALSE])
             /\ ledger' = [ledger EXCEPT ![task.options.id] =
                             [state |-> "pending",
                              at |-> task.options.scheduledAt,
                              type |-> task.options.type]]
             /\ UNCHANGED scheduledEventsMap
        ELSE /\ Settle(t, task, "rejected")
             /\ scheduledEventsMap' =
                  IF task.composed = "" THEN scheduledEventsMap
                  ELSE MapDelete(scheduledEventsMap, task.composed)
             /\ UNCHANGED ledger
     /\ UNCHANGED <<now, schemaExecs, armVars, cold, rt>>

\* cancel: storage.deleteAlarm(id)
DeleteStep(t) ==
  LET task == tasks[t]
  IN /\ Runnable(t, "delete") /\ Ready(t)
     /\ initialized' = TRUE
     /\ alarms' = deleteAlarm(alarms, task.id)
     /\ ledger' = [ledger EXCEPT ![task.id] =
                     IF @.state = "pending" THEN Canceled ELSE @]
     /\ Continue(t, [task EXCEPT !.pc = "check", !.boot = FALSE])
     /\ UNCHANGED <<now, schemaExecs, armVars, scheduledEventsMap, cold, rt>>

CheckStepRearms(t) ==
  LET task == tasks[t]
  IN /\ Runnable(t, "check") /\ Ready(t)
     /\ initialized' = TRUE
     /\ Continue(t, [task EXCEPT !.pc = "arm", !.boot = FALSE,
                                 !.earliest = getEarliestAlarm(alarms)])
     /\ UNCHANGED <<now, alarms, schemaExecs, armVars, scheduledEventsMap,
                    cold, ledger, rt>>

\* cancel resumes: if (this.currentAlarmId === id) rescheduleNextAlarm(),
\* whose first storage call reads the earliest row
CheckStep(t) ==
  LET task == tasks[t]
  IN /\ Runnable(t, "check")
     /\ IF currentAlarmId = task.id
        THEN /\ Ready(t)
             /\ initialized' = TRUE
             /\ Continue(t, [task EXCEPT !.pc = "arm", !.boot = FALSE,
                                         !.earliest = getEarliestAlarm(alarms)])
        ELSE /\ Settle(t, task, "ok")
             /\ UNCHANGED initialized
     /\ UNCHANGED <<now, alarms, schemaExecs, armVars, scheduledEventsMap,
                    cold, ledger, rt>>

\* cancelByType: storage.deleteAlarmsByType(type)
DeleteByTypeStep(t) ==
  LET task == tasks[t]
  IN /\ Runnable(t, "deleteByType") /\ Ready(t)
     /\ initialized' = TRUE
     /\ alarms' = deleteAlarmsByType(alarms, task.type)
     /\ ledger' = [id \in LedgerIds |->
                     IF ledger[id].type = task.type /\ ledger[id].state = "pending"
                     THEN Canceled
                     ELSE ledger[id]]
     /\ Continue(t, [task EXCEPT !.pc = "earliest", !.boot = FALSE])
     /\ UNCHANGED <<now, schemaExecs, armVars, scheduledEventsMap, cold, rt>>

\* rescheduleNextAlarm: storage.getEarliestAlarm()
EarliestStep(t) ==
  LET task == tasks[t]
  IN /\ Runnable(t, "earliest") /\ Ready(t)
     /\ initialized' = TRUE
     /\ Continue(t, [task EXCEPT !.pc = "arm", !.boot = FALSE,
                                 !.earliest = getEarliestAlarm(alarms)])
     /\ UNCHANGED <<now, alarms, schemaExecs, armVars, scheduledEventsMap,
                    cold, ledger, rt>>

\* rescheduleNextAlarm resumes with the earliest row: the volatile pair is
\* cleared or set, state.storage.setAlarm is called when the pair changed,
\* and the call that ran rescheduleNextAlarm settles
ArmStep(t) ==
  LET task == tasks[t]
      r == rescheduleNextAlarm(task.earliest, currentAlarmId, currentAlarmTime)
  IN /\ Runnable(t, "arm")
     /\ currentAlarmId' = r.id
     /\ currentAlarmTime' = r.time
     /\ slot' = IF r.set THEN r.time ELSE slot
     /\ lastSetAlarm' = IF r.set THEN r.time ELSE lastSetAlarm
     /\ Settle(t, [task EXCEPT !.armed = IF r.set THEN @ + 1 ELSE @], "ok")
     /\ cold' = IF task.kind = "restore" THEN FALSE ELSE cold
     /\ UNCHANGED <<now, alarms, bootVars, scheduledEventsMap, ledger, rt>>

\* handleDueAlarms, the loop body: the row of the due alarm is updated or
\* deleted, then the handler is called with it
DrainPhasesHandlerFirst == <<"handler", "mutate">>

DrainPhases == <<"mutate", "handler">>

\* handleDueAlarms: getDueAlarms(now), each record parsed; a record that
\* does not parse makes getDueAlarms, and with it handleDueAlarms, reject
DueStep(t) ==
  LET task == tasks[t]
      records == getDueAlarms(alarms, task.now)
      due == ParseAll(records)
  IN /\ Runnable(t, "due") /\ Ready(t)
     /\ initialized' = TRUE
     /\ IF ParseThrows(records)
        THEN Settle(t, [task EXCEPT !.boot = FALSE], "rejected")
        ELSE IF due = <<>>
        THEN Continue(t, [task EXCEPT !.pc = "earliest", !.boot = FALSE])
        ELSE Continue(t, [task EXCEPT !.pc = DrainPhases[1], !.boot = FALSE,
                                      !.due = due])
     /\ UNCHANGED <<now, alarms, schemaExecs, armVars, scheduledEventsMap,
                    cold, ledger, rt>>

\* the due alarm the drain is at
Current(task) == task.due[Len(task.results) + 1]

\* the sql.exec call the next step of a task issues
ExecCall(task) ==
  IF task.pc = "insert" THEN insertAlarmExec(task.options, now)
  ELSE IF task.pc = "due" THEN getDueAlarmsExec(task.now)
  ELSE IF task.pc = "delete" THEN deleteAlarmExec(task.id)
  ELSE IF task.pc = "deleteByType" THEN deleteAlarmsByTypeExec(task.type)
  ELSE IF task.pc = "earliest" THEN getEarliestAlarmExec
  ELSE IF task.pc = "check"
       THEN IF currentAlarmId = task.id THEN getEarliestAlarmExec ELSE NoExec
  ELSE IF task.pc \in {"rows", "list"} THEN getAlarmsExec
  ELSE IF task.pc = "mutate"
       THEN IF IsRecurring(Current(task))
            THEN updateAlarmExec(
                   [id |-> Current(task).id, type |-> Current(task).type,
                    scheduledAt |-> task.now + Current(task).repeatInterval,
                    repeatInterval |-> Current(task).repeatInterval,
                    payload |-> Current(task).payload])
            ELSE deleteAlarmExec(Current(task).id)
  ELSE NoExec

\* a phase of the loop body is over: the other phase follows, or the result
\* is pushed and the loop goes on, or ends and rescheduleNextAlarm follows
PhaseDone(task, phase) ==
  LET seen == IF phase = "handler"
              THEN [task EXCEPT !.handled = Append(@, Current(task).id)]
              ELSE task
      next == [seen EXCEPT !.results = Append(@, HandleResult(Current(task)))]
  IN IF phase = DrainPhases[1] THEN [seen EXCEPT !.pc = DrainPhases[2]]
     ELSE IF Len(next.results) = Len(task.due)
          THEN [next EXCEPT !.pc = "earliest"]
          ELSE [next EXCEPT !.pc = DrainPhases[1]]

\* handleDueAlarms: updateAlarm or deleteAlarm for the current due alarm
MutateStep(t) ==
  LET task == tasks[t]
  IN /\ Runnable(t, "mutate") /\ Ready(t)
     /\ initialized' = TRUE
     /\ alarms' = MutateDue(alarms, Current(task), task.now)
     /\ Continue(t, [PhaseDone(task, "mutate") EXCEPT !.boot = FALSE])
     /\ UNCHANGED <<now, schemaExecs, armVars, scheduledEventsMap, cold,
                    ledger, rt>>

\* what the ledger records when the handler is invoked with an alarm
LedgerOnFire(alarm, t) ==
  [ledger EXCEPT ![alarm.id] =
     IF @.state # "pending" THEN @
     ELSE IF IsRecurring(alarm)
          THEN [@ EXCEPT !.at = t + alarm.repeatInterval]
          ELSE NoLedger]

\* alarm()'s handler: an xstate-delay alarm goes to handleXStateAlarm, which
\* removes the index entry and relays the event
DispatchMap(alarm) ==
  IF alarm.type = "xstate-delay"
  THEN MapDelete(scheduledEventsMap, alarm.payload.scheduledEventId)
  ELSE scheduledEventsMap

\* the actor handed to handleXStateAlarm: whether actor.system._relay exists
\* and whether the delivery call throws
Actors == {[relay |-> r, throws |-> th] : r, th \in BOOLEAN}

handleXStateAlarmFallsBack(m, alarmData, actor) ==
  [map |-> MapDelete(m, alarmData.scheduledEventId),
   calls |-> IF actor.relay
             THEN IF actor.throws
                  THEN <<[via |-> "relay", event |-> alarmData.event],
                         [via |-> "send", event |-> alarmData.event]>>
                  ELSE <<[via |-> "relay", event |-> alarmData.event]>>
             ELSE <<[via |-> "send", event |-> alarmData.event]>>,
   outcome |-> "resolved"]

\* handleXStateAlarm(alarmData, actor): the index entry is deleted, then
\* try { _relay if it exists, else send } catch { log }
handleXStateAlarm(m, alarmData, actor) ==
  [map |-> MapDelete(m, alarmData.scheduledEventId),
   calls |-> IF actor.relay
             THEN <<[via |-> "relay", event |-> alarmData.event]>>
             ELSE <<[via |-> "send", event |-> alarmData.event]>>,
   outcome |-> "resolved"]

\* alarm()'s handler for an xstate-delay alarm: await handleXStateAlarm
XStateHandlerStep(t, actor) ==
  LET task == tasks[t]
      alarm == Current(task)
      r == handleXStateAlarm(scheduledEventsMap, alarm.payload, actor)
      calls == [i \in 1..Len(r.calls) |->
                  [id |-> alarm.payload.scheduledEventId,
                   relay |-> actor.relay, threw |-> actor.throws,
                   via |-> r.calls[i].via, event |-> r.calls[i].event]]
  IN /\ Runnable(t, "handler") /\ task.child = 0
     /\ alarm.type = "xstate-delay"
     /\ scheduledEventsMap' = r.map
     /\ ledger' = LedgerOnFire(alarm, task.now)
     /\ Continue(t, PhaseDone([task EXCEPT
                                 !.delivered = @ \o calls,
                                 !.threw = IF r.outcome = "resolved" THEN @
                                           ELSE @ \cup {alarm.id}],
                              "handler"))
     /\ UNCHANGED <<now, alarms, bootVars, armVars, cold, rt>>

\* handleDueAlarms: try { await handler(alarm) } catch { log }
HandlerThrowAborts(t, outcome) ==
  LET task == tasks[t]
      alarm == Current(task)
  IN /\ Runnable(t, "handler") /\ task.child = 0
     /\ outcome \in HandlerOutcomes
     /\ scheduledEventsMap' = DispatchMap(alarm)
     /\ ledger' = LedgerOnFire(alarm, task.now)
     /\ IF outcome = "throw"
        THEN Settle(t, [task EXCEPT !.threw = @ \cup {alarm.id},
                                    !.handled = Append(@, alarm.id)],
                    "rejected")
        ELSE Continue(t, PhaseDone(task, "handler"))
     /\ UNCHANGED <<now, alarms, bootVars, armVars, cold, rt>>

HandlerStep(t, outcome) ==
  LET task == tasks[t]
      alarm == Current(task)
  IN /\ Runnable(t, "handler") /\ task.child = 0
     /\ outcome \in HandlerOutcomes
     /\ scheduledEventsMap' = DispatchMap(alarm)
     /\ ledger' = LedgerOnFire(alarm, task.now)
     /\ Continue(t, PhaseDone(IF outcome = "throw"
                                THEN [task EXCEPT !.threw = @ \cup {alarm.id}]
                                ELSE task,
                                "handler"))
     /\ UNCHANGED <<now, alarms, bootVars, armVars, cold, rt>>

\* a handler that awaits alarmManager.cancel(id) before it returns
HandlerCancels(t, c, id) ==
  LET task == tasks[t]
      alarm == Current(task)
  IN /\ Runnable(t, "handler") /\ task.child = 0
     /\ tasks[c].kind = "idle" /\ c # t
     /\ scheduledEventsMap' = DispatchMap(alarm)
     /\ ledger' = LedgerOnFire(alarm, task.now)
     /\ tasks' = [tasks EXCEPT
                    ![t] = [task EXCEPT !.pc = "await", !.child = c],
                    ![c] = [IdleTask EXCEPT !.kind = "cancel", !.pc = "delete",
                                            !.id = id]]
     /\ done' = NoDone
     /\ UNCHANGED <<now, alarms, bootVars, armVars, cold, rt>>

\* a handler that awaits alarmManager.schedule(options) before it returns
HandlerSchedules(t, c, options) ==
  LET task == tasks[t]
      alarm == Current(task)
  IN /\ Runnable(t, "handler") /\ task.child = 0
     /\ tasks[c].kind = "idle" /\ c # t
     /\ scheduledEventsMap' = DispatchMap(alarm)
     /\ ledger' = LedgerOnFire(alarm, task.now)
     /\ tasks' = [tasks EXCEPT
                    ![t] = [task EXCEPT
                              !.pc = "await", !.child = c,
                              !.scheduled =
                                @ \cup {<<options.id, options.scheduledAt>>}],
                    ![c] = [IdleTask EXCEPT !.kind = "schedule",
                                            !.pc = "insert",
                                            !.options = options]]
     /\ done' = NoDone
     /\ UNCHANGED <<now, alarms, bootVars, armVars, cold, rt>>

\* the call the handler awaited has settled: the handler returns
ResumeStep(t) ==
  LET task == tasks[t]
  IN /\ Runnable(t, "await")
     /\ Continue(t, PhaseDone([task EXCEPT !.child = 0], "handler"))
     /\ UNCHANGED <<now, alarms, bootVars, armVars, scheduledEventsMap, cold,
                    ledger, rt>>

\* the platform evicts the unit: the table and the platform alarm stay, the
\* calls in flight and every in-memory field are lost
Evict ==
  /\ ~cold
  /\ tasks' = [t \in TaskIds |-> IdleTask]
  /\ done' = NoDone
  /\ initialized' = FALSE
  /\ schemaExecs' = 0
  /\ currentAlarmId' = NullId
  /\ currentAlarmTime' = Null
  /\ scheduledEventsMap' = <<>>
  /\ cold' = TRUE
  /\ rt' = NoRt
  /\ UNCHANGED <<now, alarms, slot, lastSetAlarm, ledger>>

\* the unit is constructed again: the pending alarms are read for
\* restoreScheduledEvents, then rescheduleNextAlarm
Reconstruct(t) ==
  /\ cold /\ AllIdle /\ FreeSlot(t)
  /\ Continue(t, [IdleTask EXCEPT !.kind = "restore", !.pc = "list"])
  /\ UNCHANGED <<now, alarms, bootVars, armVars, scheduledEventsMap, cold,
                 ledger, rt>>

\* getPendingAlarms(), then restoreScheduledEvents(alarms); a record that
\* does not parse makes getPendingAlarms reject
ListStep(t) ==
  LET task == tasks[t]
      records == getAlarms(alarms)
  IN /\ Runnable(t, "list") /\ Ready(t)
     /\ initialized' = TRUE
     /\ IF ParseThrows(records)
        THEN /\ Settle(t, [task EXCEPT !.boot = FALSE], "rejected")
             /\ UNCHANGED scheduledEventsMap
        ELSE /\ scheduledEventsMap' =
                  restoreScheduledEvents(scheduledEventsMap,
                                         ParseAll(records), now)
             /\ Continue(t, [task EXCEPT !.pc = "earliest", !.boot = FALSE])
     /\ UNCHANGED <<now, alarms, schemaExecs, armVars, cold, ledger, rt>>

\* ---------------------------------------------------------- specifications
\* the steps of the calls that schedule, cancel and drain
Steps(t) ==
  \/ Bootstrap(t)
  \/ InsertStep(t)
  \/ DeleteStep(t)
  \/ CheckStep(t)
  \/ DeleteByTypeStep(t)
  \/ EarliestStep(t)
  \/ ArmStep(t)
  \/ DueStep(t)
  \/ MutateStep(t)
  \/ \E outcome \in HandlerOutcomes : HandlerStep(t, outcome)

RejectKeepsEntry(t) ==
  /\ Settle(t, [tasks[t] EXCEPT !.boot = FALSE], "rejected")
  /\ scheduledEventsMap' = scheduledEventsMap

\* A storage call can fail. The method that awaits it rejects at that call
\* unless the call sits in a try block; the adapter's catch removes the index
\* entry of a schedule that rejected.
Reject(t) ==
  /\ Settle(t, [tasks[t] EXCEPT !.boot = FALSE], "rejected")
  /\ scheduledEventsMap' =
       IF tasks[t].kind = "schedule" /\ tasks[t].composed # ""
       THEN MapDelete(scheduledEventsMap, tasks[t].composed)
       ELSE scheduledEventsMap

\* schedule: storage.insertAlarm throws for another reason than a taken id
InsertFails(t) ==
  /\ Runnable(t, "insert") /\ Ready(t)
  /\ initialized' = TRUE
  /\ Reject(t)
  /\ UNCHANGED <<now, alarms, schemaExecs, armVars, cold, ledger, rt>>

\* handleDueAlarms: storage.updateAlarm or storage.deleteAlarm throws; the
\* call is outside the try block that wraps the handler
MutateFails(t) ==
  /\ Runnable(t, "mutate") /\ Ready(t)
  /\ initialized' = TRUE
  /\ Reject(t)
  /\ UNCHANGED <<now, alarms, schemaExecs, armVars, cold, ledger, rt>>

\* rescheduleNextAlarm: storage.getEarliestAlarm throws
EarliestFails(t) ==
  /\ Runnable(t, "earliest") /\ Ready(t)
  /\ initialized' = TRUE
  /\ Reject(t)
  /\ UNCHANGED <<now, alarms, schemaExecs, armVars, cold, ledger, rt>>

\* rescheduleNextAlarm: state.storage.setAlarm throws; the volatile pair was
\* assigned before the call
SetAlarmFails(t) ==
  LET task == tasks[t]
      r == rescheduleNextAlarm(task.earliest, currentAlarmId, currentAlarmTime)
  IN /\ Runnable(t, "arm")
     /\ r.set
     /\ currentAlarmId' = r.id
     /\ currentAlarmTime' = r.time
     /\ Reject(t)
     /\ UNCHANGED <<now, alarms, bootVars, slot, lastSetAlarm, cold, ledger, rt>>

Faults(t) ==
  \/ InsertFails(t)
  \/ MutateFails(t)
  \/ EarliestFails(t)
  \/ SetAlarmFails(t)

\* the calls a client makes, each awaited: none starts while one is in flight
AwaitedSchedule ==
  \E t \in TaskIds, options \in ScheduleInputs :
    AllIdle /\ CallSchedule(t, options)

AwaitedCancel ==
  \E t \in TaskIds, id \in AlarmIds : AllIdle /\ CallCancel(t, id)

AwaitedCancelByType ==
  \E t \in TaskIds, type \in AlarmTypes : AllIdle /\ CallCancelByType(t, type)

\* the adapter's calls, each left to settle before the next call
SettledAdapterSchedule ==
  \E t \in TaskIds, s \in OneSession, e \in Events, d \in Delays, k \in Keys :
    AllIdle /\ AdapterSchedule(t, s, s, e, d, k)

SettledAdapterCancel ==
  \E t \in TaskIds, s \in OneSession, k \in Keys :
    AllIdle /\ AdapterCancel(t, s, k)

AwaitedWakeup == \E t \in TaskIds : AllIdle /\ Wakeup(t)

AwaitedDrain == \E t \in TaskIds : AllIdle /\ CallDrain(t)

\* Awaited calls, one at a time; the handler only receives the alarm.
Next ==
  \/ Tick
  \/ AwaitedSchedule
  \/ AwaitedCancel
  \/ AwaitedCancelByType
  \/ SettledAdapterSchedule
  \/ SettledAdapterCancel
  \/ AwaitedWakeup
  \/ AwaitedDrain
  \/ \E t \in TaskIds : Steps(t)

Spec == Init /\ [][Next]_vars

\* The same calls, with the unit evicted at any point and constructed again.
NextEvict ==
  \/ Next
  \/ Evict
  \/ \E t \in TaskIds : Reconstruct(t)
  \/ \E t \in TaskIds : ListStep(t)

SpecEvict == Init /\ [][NextEvict]_vars

\* a handler awaits a cancel or a schedule before it returns
HandlerAwaits(t) ==
  \/ \E c \in TaskIds, id \in AlarmIds : HandlerCancels(t, c, id)
  \/ \E c \in TaskIds, options \in ScheduleInputs :
       HandlerSchedules(t, c, options)
  \/ ResumeStep(t)

\* Awaited calls, with such handlers.
NextReentrant ==
  \/ Next
  \/ \E t \in TaskIds : HandlerAwaits(t)

SpecReentrant == Init /\ [][NextReentrant]_vars

\* Awaited AlarmManager calls and such handlers under fairness: the clock
\* advances, a call in flight takes its next step, and the host, whose queue
\* is first in first out, fires the wakeup slot once its deadline has passed.
NextFair ==
  \/ Tick
  \/ AwaitedSchedule
  \/ AwaitedCancel
  \/ AwaitedCancelByType
  \/ AwaitedWakeup
  \/ AwaitedDrain
  \/ \E t \in TaskIds : Steps(t)
  \/ \E t \in TaskIds : HandlerAwaits(t)

FairSpec ==
  /\ Init /\ [][NextFair]_vars
  /\ WF_vars(Tick)
  /\ WF_vars(\E t \in TaskIds : Steps(t) \/ ResumeStep(t))
  /\ SF_vars(AwaitedWakeup)

\* The adapter as the actor drives it: schedule and cancel start their
\* AlarmManager calls without awaiting them, so the calls are in flight
\* together and their steps interleave.
AdapterSteps(t) ==
  \/ Bootstrap(t)
  \/ InsertStep(t)
  \/ DeleteStep(t)
  \/ CheckStep(t)
  \/ EarliestStep(t)
  \/ ArmStep(t)

NextAdapter ==
  \/ Tick
  \/ \E t \in TaskIds, s \in OneSession, e \in Events, d \in Delays, k \in Keys :
       AdapterSchedule(t, s, s, e, d, k)
  \/ \E t \in TaskIds, s \in OneSession, k \in Keys : AdapterCancel(t, s, k)
  \/ \E t \in TaskIds : AdapterSteps(t)

SpecAdapter == Init /\ [][NextAdapter]_vars

AwaitedRecurringSchedule ==
  \E t \in TaskIds, options \in ScheduleInputs :
    IsRecurring(options) /\ AllIdle /\ CallSchedule(t, options)

\* the steps of schedule and handleDueAlarms
ScheduleDrainSteps(t) ==
  \/ Bootstrap(t)
  \/ InsertStep(t)
  \/ EarliestStep(t)
  \/ ArmStep(t)
  \/ DueStep(t)
  \/ MutateStep(t)
  \/ \E outcome \in HandlerOutcomes : HandlerStep(t, outcome)

\* Awaited schedules and drains over a table that holds a corrupt row.
NextCorrupt ==
  \/ Tick
  \/ AwaitedRecurringSchedule
  \/ AwaitedWakeup
  \/ AwaitedDrain
  \/ \E t \in TaskIds : ScheduleDrainSteps(t)

SpecCorrupt == InitCorrupt /\ [][NextCorrupt]_vars

\* Awaited schedules, cancels and rescheduleNextAlarm calls of a unit that
\* was constructed over a stored row.
AwaitedRearm == \E t \in TaskIds : AllIdle /\ CallRearm(t)

RearmSteps(t) ==
  \/ Bootstrap(t)
  \/ InsertStep(t)
  \/ DeleteStep(t)
  \/ CheckStep(t)
  \/ EarliestStep(t)
  \/ ArmStep(t)

NextRearm ==
  \/ Tick
  \/ AwaitedSchedule
  \/ AwaitedCancel
  \/ AwaitedRearm
  \/ \E t \in TaskIds : RearmSteps(t)

SpecRearm == InitStored /\ [][NextRearm]_vars

\* Awaited schedules and getAlarms queries, the driver free in the shape of
\* its answer.
AwaitedGetAlarms == \E t \in TaskIds : AllIdle /\ CallGetAlarms(t)

RowsSteps(t) ==
  \/ Bootstrap(t)
  \/ InsertStep(t)
  \/ EarliestStep(t)
  \/ ArmStep(t)
  \/ GetAlarmsStep(t)

NextRows ==
  \/ Tick
  \/ AwaitedSchedule
  \/ AwaitedGetAlarms
  \/ \E t \in TaskIds : RowsSteps(t)

SpecRows == Init /\ [][NextRows]_vars

\* Awaited schedules of alarms of known and unknown types, and drains.
AwaitedTypedSchedule ==
  \E t \in TaskIds, options \in TypedInputs :
    AllIdle /\ CallSchedule(t, options)

NextTypes ==
  \/ Tick
  \/ AwaitedTypedSchedule
  \/ AwaitedWakeup
  \/ AwaitedDrain
  \/ \E t \in TaskIds : ScheduleDrainSteps(t)

SpecTypes == Init /\ [][NextTypes]_vars

\* The adapter's schedule and cancelAll, each left to settle, with the unit
\* evicted at any point and constructed again (restoreScheduledEvents). A
\* delayed event is scheduled only while its row is not stored.
FreshAdapterSchedule ==
  \E t \in TaskIds, s \in OneSession, e \in Events, d \in Delays, k \in Keys :
    /\ AllIdle
    /\ ~HasRow(alarms, AlarmIdOf(ScheduledEventId(s, k)))
    /\ AdapterSchedule(t, s, s, e, d, k)

RestoreSteps(t) ==
  \/ AdapterSteps(t)
  \/ ListStep(t)

NextCancelAllEvict ==
  \/ Tick
  \/ FreshAdapterSchedule
  \/ \E s \in OneSession : AdapterCancelAll(s)
  \/ Evict
  \/ \E t \in TaskIds : Reconstruct(t)
  \/ \E t \in TaskIds : RestoreSteps(t)

SpecCancelAllEvict == Init /\ [][NextCancelAllEvict]_vars

\* The adapter's schedule, started without await, while the storage and the
\* platform may fail any step of alarmManager.schedule.
ScheduleFaults(t) ==
  \/ InsertFails(t)
  \/ EarliestFails(t)
  \/ SetAlarmFails(t)

ScheduleSteps(t) ==
  \/ Bootstrap(t)
  \/ InsertStep(t)
  \/ EarliestStep(t)
  \/ ArmStep(t)

NextAdapterFaulty ==
  \/ Tick
  \/ \E t \in TaskIds, s \in OneSession, e \in Events, d \in Delays, k \in Keys :
       AdapterSchedule(t, s, s, e, d, k)
  \/ \E t \in TaskIds : ScheduleSteps(t)
  \/ \E t \in TaskIds : ScheduleFaults(t)

SpecAdapterFaulty == Init /\ [][NextAdapterFaulty]_vars

\* The adapter's schedule and cancel over every session and key, dotted keys
\* included, each call left to settle before the next.
KeyedPairs == {<<"s1", "k">>, <<"s1", "k.x">>, <<"s2", "k.x">>}

KeyedSchedule ==
  \E t \in TaskIds, p \in KeyedPairs, e \in Events, d \in Delays :
    AllIdle /\ AdapterSchedule(t, p[1], p[1], e, d, p[2])

KeyedCancel ==
  \E t \in TaskIds, p \in KeyedPairs :
    AllIdle /\ AdapterCancel(t, p[1], p[2])

NextKeys ==
  \/ Tick
  \/ KeyedSchedule
  \/ KeyedCancel
  \/ \E t \in TaskIds : AdapterSteps(t)

SpecKeys == Init /\ [][NextKeys]_vars

\* The adapter's schedule, left to settle, and cancelAll of either session.
NextCancelAll ==
  \/ Tick
  \/ KeyedSchedule
  \/ \E s \in Sessions : AdapterCancelAll(s)
  \/ \E t \in TaskIds : AdapterSteps(t)

SpecCancelAll == Init /\ [][NextCancelAll]_vars

\* Awaited schedules and direct calls of the storage's row operations.
UpdateInputs ==
  {[id |-> id, type |-> "xstate-delay", scheduledAt |-> at,
    repeatInterval |-> iv, payload |-> [m |-> "2", u |-> "undefined"]] :
      id \in {"A", "R"}, at \in Deadlines, iv \in {Null} \cup Intervals}

AwaitedUpdateAlarm ==
  \E t \in TaskIds, options \in UpdateInputs :
    AllIdle /\ CallUpdateAlarm(t, options)

AwaitedDeleteAlarm ==
  \E t \in TaskIds, id \in {"A", "R"} : AllIdle /\ CallDeleteAlarm(t, id)

StorageSteps(t) ==
  \/ Bootstrap(t)
  \/ InsertStep(t)
  \/ EarliestStep(t)
  \/ ArmStep(t)
  \/ UpdateAlarmStep(t)
  \/ DeleteAlarmStep(t)

NextStorage ==
  \/ Tick
  \/ AwaitedSchedule
  \/ AwaitedUpdateAlarm
  \/ AwaitedDeleteAlarm
  \/ \E t \in TaskIds : StorageSteps(t)

SpecStorage == Init /\ [][NextStorage]_vars

\* Awaited schedules and the two read methods.
AwaitedGetPendingAlarms ==
  \E t \in TaskIds : AllIdle /\ CallGetPendingAlarms(t)

AwaitedGetDueAlarms ==
  \E t \in TaskIds, before \in 0..MaxTime :
    AllIdle /\ CallGetDueAlarms(t, before)

ReadSteps(t) ==
  \/ Bootstrap(t)
  \/ InsertStep(t)
  \/ EarliestStep(t)
  \/ ArmStep(t)
  \/ PendingStep(t)
  \/ ReadDueStep(t)

NextReads ==
  \/ Tick
  \/ AwaitedSchedule
  \/ SettledAdapterSchedule
  \/ AwaitedGetPendingAlarms
  \/ AwaitedGetDueAlarms
  \/ \E t \in TaskIds : ReadSteps(t)

SpecReads == Init /\ [][NextReads]_vars

\* Awaited schedules with any options the parameter type admits, and drains.
AwaitedAnySchedule ==
  \E t \in TaskIds, options \in AnyScheduleInputs :
    AllIdle /\ CallSchedule(t, options)

NextAnyOptions ==
  \/ Tick
  \/ AwaitedAnySchedule
  \/ AwaitedWakeup
  \/ AwaitedDrain
  \/ \E t \in TaskIds : ScheduleDrainSteps(t)

SpecAnyOptions == Init /\ [][NextAnyOptions]_vars

\* Awaited schedules and drains over a storage whose calls can fail.
NextFaulty ==
  \/ Tick
  \/ AwaitedSchedule
  \/ AwaitedWakeup
  \/ AwaitedDrain
  \/ \E t \in TaskIds : ScheduleDrainSteps(t)
  \/ \E t \in TaskIds : Faults(t)

SpecFaulty == Init /\ [][NextFaulty]_vars

\* Hibernation under fairness: recurring alarms are scheduled directly and
\* delayed events through the adapter, the unit is evicted at any point and constructed again when
\* the platform next wakes it, and the armed slot fires.
HibernationSteps(t) ==
  \/ Bootstrap(t)
  \/ InsertStep(t)
  \/ EarliestStep(t)
  \/ ArmStep(t)
  \/ DueStep(t)
  \/ MutateStep(t)
  \/ \E outcome \in HandlerOutcomes : HandlerStep(t, outcome)
  \/ ListStep(t)

NextHibernation ==
  \/ Tick
  \/ AwaitedRecurringSchedule
  \/ SettledAdapterSchedule
  \/ AwaitedWakeup
  \/ Evict
  \/ \E t \in TaskIds : Reconstruct(t)
  \/ \E t \in TaskIds : HibernationSteps(t)

FairSpecHibernation ==
  /\ Init /\ [][NextHibernation]_vars
  /\ WF_vars(Tick)
  /\ WF_vars(\E t \in TaskIds : Reconstruct(t))
  /\ WF_vars(\E t \in TaskIds : HibernationSteps(t))
  /\ SF_vars(AwaitedWakeup)

\* Cold start: delayed events of s1 for s2 are scheduled, the unit is evicted
\* and constructed again, and the armed slot fires.
RestorableSchedule ==
  \E t \in TaskIds, e \in Events, d \in Delays, k \in Keys \cup DottedKeys :
    AllIdle /\ AdapterSchedule(t, "s1", "s2", e, d, k)

NextRestore ==
  \/ Tick
  \/ RestorableSchedule
  \/ AwaitedWakeup
  \/ Evict
  \/ \E t \in TaskIds : Reconstruct(t)
  \/ \E t \in TaskIds : HibernationSteps(t)

SpecRestore == Init /\ [][NextRestore]_vars

\* Delivery: delayed events are scheduled, the slot fires, and the drain's
\* handler is handleXStateAlarm with an actor of any kind.
DeliverySteps(t) ==
  \/ Bootstrap(t)
  \/ InsertStep(t)
  \/ EarliestStep(t)
  \/ ArmStep(t)
  \/ DueStep(t)
  \/ MutateStep(t)
  \/ \E actor \in Actors : XStateHandlerStep(t, actor)

NextDelivery ==
  \/ Tick
  \/ RestorableSchedule
  \/ AwaitedWakeup
  \/ \E t \in TaskIds : DeliverySteps(t)

SpecDelivery == Init /\ [][NextDelivery]_vars

\* Drains whose handler may await a cancel or a schedule of A or R.
HandlerReenters(t) ==
  \/ \E c \in TaskIds, id \in {"A", "R"} : HandlerCancels(t, c, id)
  \/ \E c \in TaskIds, options \in ScheduleInputs :
       HandlerSchedules(t, c, options)
  \/ ResumeStep(t)

ResultSteps(t) ==
  \/ Bootstrap(t)
  \/ InsertStep(t)
  \/ DeleteStep(t)
  \/ CheckStep(t)
  \/ EarliestStep(t)
  \/ ArmStep(t)
  \/ DueStep(t)
  \/ MutateStep(t)
  \/ \E outcome \in HandlerOutcomes : HandlerStep(t, outcome)

NextResults ==
  \/ Tick
  \/ AwaitedSchedule
  \/ AwaitedWakeup
  \/ \E t \in TaskIds : ResultSteps(t)
  \/ \E t \in TaskIds : HandlerReenters(t)

SpecResults == Init /\ [][NextResults]_vars

\* ------------------------------------------- calculateNextRecurringAlarm
\* the arguments a caller may pass: the function checks none of them, an
\* interval of zero included
BaseTimes == (0 - 2)..(MaxTime + 1)
AnyIntervals == {0, 1, 2, 3}
NowArgs == 0..(MaxTime + 2)

\* one call: next = baseTime, at the head of the while loop; odd: the parity
\* of the iterations run so far
CalcTask(baseTime, interval, at) ==
  [kind |-> "calculateNextRecurringAlarm", pc |-> "while",
   baseTime |-> baseTime, interval |-> interval, now |-> at,
   next |-> baseTime, odd |-> FALSE]

InitCalculate ==
  \E baseTime \in BaseTimes, interval \in AnyIntervals, at \in NowArgs :
    /\ now = 0
    /\ alarms = <<>>
    /\ initialized = FALSE
    /\ schemaExecs = 0
    /\ currentAlarmId = NullId
    /\ currentAlarmTime = Null
    /\ slot = Null
    /\ lastSetAlarm = Null
    /\ scheduledEventsMap = <<>>
    /\ cold = FALSE
    /\ tasks = [t \in TaskIds |->
                  IF t = 1 THEN CalcTask(baseTime, interval, at) ELSE IdleTask]
    /\ done = NoDone
    /\ ledger = [id \in LedgerIds |-> NoLedger]
    /\ rt = NoRt

\* one iteration: while (next < now) next += interval
WhileStep(t) ==
  /\ tasks[t].kind = "calculateNextRecurringAlarm"
  /\ tasks[t].pc = "while"
  /\ tasks[t].next < tasks[t].now
  /\ tasks' = [tasks EXCEPT
                 ![t].next = tasks[t].next + tasks[t].interval,
                 ![t].odd = ~tasks[t].odd]
  /\ UNCHANGED <<now, alarms, bootVars, armVars, scheduledEventsMap, cold,
                 done, ledger, rt>>

\* the loop condition is false: return next
ReturnStep(t) ==
  /\ tasks[t].kind = "calculateNextRecurringAlarm"
  /\ tasks[t].pc = "while"
  /\ ~(tasks[t].next < tasks[t].now)
  /\ tasks' = [tasks EXCEPT ![t].pc = "returned"]
  /\ UNCHANGED <<now, alarms, bootVars, armVars, scheduledEventsMap, cold,
                 done, ledger, rt>>

NextCalculate ==
  \/ \E t \in TaskIds : WhileStep(t)
  \/ \E t \in TaskIds : ReturnStep(t)

\* the function is synchronous: once called it runs until it returns
FairSpecCalculate ==
  /\ InitCalculate /\ [][NextCalculate]_vars
  /\ WF_vars(NextCalculate)

\* ------------------------------------------------------------------ claims
Range(seq) == {seq[i] : i \in 1..Len(seq)}

Count(seq, x) == Cardinality({i \in 1..Len(seq) : seq[i] = x})

MinScheduledAt(tbl) ==
  CHOOSE m \in {tbl[i].scheduled_at : i \in 1..Len(tbl)} :
    \A i \in 1..Len(tbl) : m <= tbl[i].scheduled_at

\* a handleDueAlarms call settled in the last step
DrainSettled == done.task.kind = "drain"

\* C1: when a drain that follows awaited schedule and cancel calls settles,
\* the ids the handler was invoked with are the ids inserted and not canceled
\* whose deadline is <= the drain's time: the ledger's pending ids due at the
\* drain's call.
C1_DeliveredArePendingDue ==
  DrainSettled => Range(done.task.handled) = done.task.expect

\* a drain delivered an alarm whose deadline equals its time, left a row with
\* a later deadline, and an id had been canceled before
C1_Witness ==
  /\ DrainSettled
  /\ \E i \in 1..Len(done.task.due) :
       done.task.due[i].scheduledAt = done.task.now
  /\ \E i \in 1..Len(alarms) :
       /\ alarms[i].scheduled_at > done.task.now
       /\ alarms[i].id \notin Range(done.task.handled)
  /\ \E id \in AlarmIds : ledger[id].state = "canceled"

\* C3: with no call in flight and a non-empty table, currentAlarmTime and the
\* deadline last passed to setAlarm are the minimum scheduled_at of the table;
\* a schedule call calls setAlarm at most once.
C3_ArmedForEarliest ==
  /\ (AllIdle /\ alarms # <<>>) =>
       /\ currentAlarmTime = MinScheduledAt(alarms)
       /\ lastSetAlarm = MinScheduledAt(alarms)
  /\ done.task.kind = "schedule" => done.task.armed <= 1

\* a schedule settled that re-armed the slot for a row inserted after a row
\* with a later deadline
C3_Witness ==
  /\ AllIdle /\ Len(alarms) >= 2
  /\ done.task.kind = "schedule" /\ done.task.armed = 1
  /\ alarms[Len(alarms)].scheduled_at < alarms[1].scheduled_at
  /\ currentAlarmId = alarms[Len(alarms)].id

C8_HandlerErrorIsolated ==
  (DrainSettled /\ done.task.threw # {}) =>
    /\ done.outcome = "ok"
    /\ Len(done.task.results) = Len(done.task.due)
    /\ done.task.handled = [i \in 1..Len(done.task.due) |-> done.task.due[i].id]
    /\ \A i \in 1..Len(done.task.due) :
         LET a == done.task.due[i]
         IN IF a.repeatInterval > 0
            THEN /\ HasRow(alarms, a.id)
                 /\ RowOf(alarms, a.id).scheduled_at > done.task.now
            ELSE ~HasRow(alarms, a.id)
    /\ IF alarms = <<>>
       THEN currentAlarmId = NullId /\ currentAlarmTime = Null
       ELSE /\ currentAlarmTime = MinScheduledAt(alarms)
            /\ lastSetAlarm = MinScheduledAt(alarms)

\* a drain settled whose handler threw for the first of two due alarms
C8_Witness ==
  /\ DrainSettled
  /\ Len(done.task.due) >= 2
  /\ done.task.due[1].id \in done.task.threw
  /\ done.task.due[2].id \notin done.task.threw

\* C9: the insert of a schedule call whose id is already in the table rejects
\* the call and leaves the table, the volatile pair and the slot as they were,
\* the table holding one row with that id.
C9_DuplicateRejected ==
  [][\A t \in TaskIds :
       (/\ tasks[t].kind = "schedule" /\ tasks[t].pc = "insert"
        /\ HasRow(alarms, tasks[t].options.id)
        /\ tasks'[t].pc # "insert") =>
         /\ done'.outcome = "rejected"
         /\ done'.task.options = tasks[t].options
         /\ alarms' = alarms
         /\ Count([j \in 1..Len(alarms') |-> alarms'[j].id],
                  tasks[t].options.id) = 1
         /\ <<currentAlarmId, currentAlarmTime, slot, lastSetAlarm>>' =
              <<currentAlarmId, currentAlarmTime, slot, lastSetAlarm>>]_vars

\* a schedule call was rejected whose options differ from the row in the table
C9_Witness ==
  /\ done.task.kind = "schedule" /\ done.outcome = "rejected"
  /\ HasRow(alarms, done.task.options.id)
  /\ RowOf(alarms, done.task.options.id).scheduled_at #
       done.task.options.scheduledAt

\* the step invokes the handler of drain t with its current due alarm
Invoked(t) ==
  /\ tasks[t].kind = "drain" /\ tasks[t].pc = "handler"
  /\ tasks'[t] # tasks[t]
  /\ cold' = cold

\* C2: over any run with evictions, the handler is invoked with a one-time
\* alarm only while its insert is still pending (not yet handed to the
\* handler, not canceled), which the invocation ends; and no drain invokes
\* the handler twice with the same id.
C2_AtMostOnce ==
  [][\A t \in TaskIds :
       Invoked(t) =>
         LET a == Current(tasks[t])
         IN /\ ~IsRecurring(a) =>
                 /\ ledger[a.id].state = "pending"
                 /\ ledger'[a.id].state = "absent"
            /\ a.id \notin Range(tasks[t].handled)]_vars

\* a drain after an eviction handed a one-time alarm to the handler while
\* another alarm, deleted by a drain that was evicted before its handler ran,
\* is never delivered
C2_Witness ==
  /\ DrainSettled
  /\ \E i \in 1..Len(done.task.due) : done.task.due[i].repeatInterval = Null
  /\ \E id \in AlarmIds : ledger[id].state = "pending" /\ ~HasRow(alarms, id)

\* C5: once cancel(id) has returned, no row with that id is in the table and
\* the handler is not invoked with that alarm unless it is scheduled again,
\* also when the cancel is awaited by a handler inside a drain; with the table
\* empty and no call in flight the volatile pair is null.
C5_CancelIsFinal ==
  [][/\ \A t \in TaskIds :
          (tasks[t].kind = "cancel" /\ tasks'[t].kind = "idle" /\ cold' = cold)
            => ~HasRow(alarms', tasks[t].id)
     /\ \A t \in TaskIds :
          Invoked(t) =>
            ~ /\ ledger[Current(tasks[t]).id].state = "canceled"
              /\ \A u \in TaskIds :
                   ~(tasks[u].kind = "cancel" /\ tasks[u].id = Current(tasks[t]).id)
     /\ (AllIdle /\ alarms = <<>>)' =>
          (currentAlarmId = NullId /\ currentAlarmTime = Null)']_vars

\* C10: schedule(a) followed at once by cancel(a.id), for an id that is in
\* neither the table nor the index, leaves the table and the index as they
\* were once both calls have settled; the adapter's schedule and cancel start
\* their AlarmManager calls without awaiting them.
C10_RoundTrip ==
  (rt.stage = "canceling" /\ rt.fresh /\ AllIdle) =>
    /\ alarms = rt.alarms
    /\ scheduledEventsMap = rt.map

\* C4: an alarm whose schedule call committed and which is not canceled is
\* eventually passed to the handler, for every deadline the clock reaches;
\* and a drain invokes the handler for every pending alarm whose deadline had
\* passed when the drain was called.
C4_EventuallyDelivered ==
  /\ \A id \in AlarmIds, d \in 0..MaxTime :
       (ledger[id].state = "pending" /\ ledger[id].at = d)
         ~> ~(ledger[id].state = "pending" /\ ledger[id].at = d)
  /\ [](DrainSettled => done.task.expect \subseteq Range(done.task.handled))

\* a drain started by the wakeup slot after the clock had advanced delivered
\* an alarm at its deadline
C4_Witness ==
  /\ DrainSettled
  /\ done.task.now > 0
  /\ slot = Null
  /\ \E i \in 1..Len(done.task.due) :
       /\ done.task.due[i].scheduledAt = done.task.now
       /\ done.task.due[i].id \in Range(done.task.handled)

\* no row of the table has a deadline the clock reaches
NoRowDue == \A i \in 1..Len(alarms) : alarms[i].scheduled_at > MaxTime

C12_CorruptDeleted ==
  DrainSettled =>
    /\ done.outcome = "ok"
    /\ \A i \in 1..Len(alarms) :
         JSONParseThrows(alarms[i].payload) =>
           alarms[i].scheduled_at > done.task.now

C12_Witness ==
  /\ DrainSettled
  /\ done.outcome = "rejected"
  /\ HasRow(alarms, "A") /\ JSONParseThrows(RowOf(alarms, "A").payload)
  /\ HasRow(alarms, "R") /\ RowOf(alarms, "R").scheduled_at <= done.task.now
  /\ slot = Null

\* C13: every drain attempts a rearm: whatever per-alarm step fails (the
\* handler, or deleteAlarm/updateAlarm for one alarm), a drain that has ended
\* has a result for every due alarm and has called rescheduleNextAlarm.
C13_AlwaysRearms ==
  DrainSettled =>
    /\ done.task.pc \in {"earliest", "arm"}
    /\ Len(done.task.results) = Len(done.task.due)

C13_Witness ==
  /\ DrainSettled
  /\ done.outcome = "rejected"
  /\ done.task.pc = "mutate"
  /\ Len(done.task.results) = 1
  /\ Len(done.task.due) = 2
  /\ slot = Null

\* C14: schedule fails only if the storage insert fails: a schedule that
\* rejected was rejected by insertAlarm, and added no row.
C14_FailsOnlyOnInsert ==
  (done.task.kind = "schedule" /\ done.outcome = "rejected") =>
    done.task.pc = "insert"

C14_Witness ==
  /\ done.task.kind = "schedule"
  /\ done.outcome = "rejected"
  /\ done.task.pc \in {"earliest", "arm"}
  /\ HasRow(alarms, done.task.options.id)
  /\ RowOf(alarms, done.task.options.id).scheduled_at =
       done.task.options.scheduledAt
  /\ ~HasRow(alarms, IF done.task.options.id = "A" THEN "R" ELSE "A")

\* C15: rescheduleNextAlarm is idempotent on the slot: of two calls
\* back-to-back the second leaves currentAlarmId/currentAlarmTime and the
\* slot as they are, and the two call setAlarm at most once in total.
C15_RearmIdempotent ==
  [][\A t \in TaskIds :
       (tasks[t].kind = "rearm" /\ tasks[t].again) =>
         /\ currentAlarmId' = currentAlarmId
         /\ currentAlarmTime' = currentAlarmTime
         /\ slot' = slot
         /\ tasks'[t].kind = "idle" => done'.task.armed <= 1]_vars

C15_Witness ==
  /\ done.task.kind = "rearm"
  /\ done.task.again
  /\ done.outcome = "ok"
  /\ done.task.armed = 1
  /\ currentAlarmId # NullId
  /\ slot = currentAlarmTime

\* C16: the schema bootstrap SQL is executed at most once per storage
\* instance, for any number and any interleaving of storage operations,
\* also of operations started before the first bootstrap has completed.
C16_SchemaOnce == schemaExecs <= 1

C16_Witness ==
  /\ schemaExecs = 2
  /\ initialized
  /\ \E t \in TaskIds : tasks[t].kind = "schedule" /\ tasks[t].boot

\* C17: result normalization: whatever shape the driver answers in (array
\* of batches, the columnNames/results variant, async-iterable cursor) and
\* however it cuts the rows into batches, getAlarms returns the stored rows
\* as column-keyed records in their order.
C17_SameRowsAnyShape ==
  done.task.kind = "getAlarms" => done.task.due = getAlarms(alarms)

C17_Witness ==
  /\ done.task.kind = "getAlarms"
  /\ done.task.shape = "array"
  /\ Len(alarms) = 2
  /\ Len(done.task.due) < 2

\* C18: every sql.exec call of a storage operation passes its bind values
\* as separate positional scalars in placeholder order, one per placeholder
\* and none an array (getDueAlarms: the one bind 'before'; insertAlarm: id,
\* type, scheduledAt, repeatInterval or null, the JSON payload text,
\* created_at), and the row an insert adds holds the binds in column order.
BindValues(call) == [i \in 1..Len(call.binds) |-> call.binds[i].value]

C18_PositionalBinds ==
  /\ [](\A t \in TaskIds :
          tasks[t].kind # "idle" =>
            LET task == tasks[t]
                call == ExecCall(task)
            IN /\ Len(call.binds) = call.placeholders
               /\ \A i \in 1..Len(call.binds) : ~call.binds[i].array
               /\ task.pc = "due" => BindValues(call) = <<task.now>>
               /\ task.pc = "insert" =>
                    BindValues(call) =
                      <<task.options.id, task.options.type,
                        task.options.scheduledAt, task.options.repeatInterval,
                        JSONStringify(task.options.payload), now>>)
  /\ [][\A t \in TaskIds :
          (tasks[t].pc = "insert" /\ tasks'[t].pc = "earliest") =>
            RowValues(RowOf(alarms', tasks[t].options.id)) =
              BindValues(ExecCall(tasks[t]))]_vars

C18_Witness ==
  /\ done.task.kind = "schedule"
  /\ done.outcome = "ok"
  /\ done.task.options.repeatInterval = Null
  /\ HasRow(alarms, done.task.options.id)
  /\ RowOf(alarms, done.task.options.id).repeat_interval = Null
  /\ RowOf(alarms, done.task.options.id).payload =
       JSONStringify(done.task.options.payload)

\* C19: data-model invariant: in every reachable state of the alarms table
\* the ids are unique, every scheduled_at is >= 0 and every repeat_interval
\* is null or > 0, whatever options callers pass.
C19_DataModel ==
  /\ \A i, j \in 1..Len(alarms) : alarms[i].id = alarms[j].id => i = j
  /\ \A i \in 1..Len(alarms) :
       /\ alarms[i].scheduled_at >= 0
       /\ alarms[i].repeat_interval = Null \/ alarms[i].repeat_interval > 0

C19_Witness ==
  /\ DrainSettled
  /\ done.outcome = "ok"
  /\ HasRow(alarms, "R")
  /\ RowOf(alarms, "R").scheduled_at = done.task.now + NegativeInterval
  /\ RowOf(alarms, "R").scheduled_at < 0
  /\ "R" \in Range(done.task.handled)

\* C20: within one drain the due alarms are handled in ascending
\* scheduled_at order, alarms with equal scheduled_at in the order they were
\* inserted (the order of their rows in the table), and the result vector
\* lists them in exactly that order.
RowIndex(tbl, id) == CHOOSE i \in 1..Len(tbl) : tbl[i].id = id

NoneDue(tbl, before) == \A i \in 1..Len(tbl) : tbl[i].scheduled_at > before

C21_SpuriousWakeupHarmless ==
  /\ [][\A t \in TaskIds :
          /\ (/\ tasks[t].kind = "drain" /\ tasks[t].pc = "due"
              /\ tasks'[t].pc # "due"
              /\ NoneDue(alarms, tasks[t].now)) =>
               /\ tasks'[t].kind = "drain"
               /\ tasks'[t].due = <<>>
               /\ tasks'[t].pc = "earliest"
               /\ alarms' = alarms
          /\ (/\ tasks[t].kind = "drain" /\ tasks[t].pc \in {"earliest", "arm"}
              /\ tasks[t].due = <<>>) =>
               /\ alarms' = alarms
               /\ tasks'[t].kind = "idle" =>
                    /\ done'.outcome = "ok"
                    /\ done'.task.results = <<>>
                    /\ done'.task.handled = <<>>]_vars
  /\ []((DrainSettled /\ done.task.due = <<>>) =>
          /\ done.outcome = "ok"
          /\ done.task.results = <<>>
          /\ done.task.handled = <<>>)

C21_Witness ==
  /\ DrainSettled
  /\ done.outcome = "ok"
  /\ done.task.due = <<>>
  /\ done.task.results = <<>>
  /\ alarms # <<>>
  /\ NoneDue(alarms, done.task.now)
  /\ slot = MinScheduledAt(alarms)

\* C22: an alarm a handler inserts during a drain is not handled by that
\* drain (the drain handles the alarms that were due at its entry, each
\* once), and the rearm that follows takes it into account: once the drain
\* and the insert have completed, the slot is armed no later than that
\* alarm's deadline.
InsertedByHandler(task) ==
  {p \in task.scheduled :
     /\ HasRow(alarms, p[1])
     /\ RowOf(alarms, p[1]).scheduled_at = p[2]}

C22_HandlerInsertSeenByRearm ==
  (DrainSettled /\ done.outcome = "ok" /\ AllIdle) =>
    /\ done.task.handled =
         [i \in 1..Len(done.task.due) |-> done.task.due[i].id]
    /\ \A p \in InsertedByHandler(done.task) : slot # Null /\ slot <= p[2]

C22_Witness ==
  /\ DrainSettled /\ done.outcome = "ok" /\ AllIdle
  /\ done.task.handled = <<"A">>
  /\ <<"A", 0>> \in InsertedByHandler(done.task)
  /\ slot = Null
  /\ currentAlarmId = "A" /\ currentAlarmTime = 0

\* C23: payload and type round-trip: the alarm the handler is called with has
\* the id, type, repeat interval and (JSON-equal) payload of the options
\* given to schedule, for types outside the known set too, and what the
\* drain does with an alarm (handle, reschedule or delete) does not depend
\* on its type.
C23_PayloadTypeRoundTrip ==
  /\ [][\A t \in TaskIds :
          (/\ tasks[t].kind = "drain" /\ tasks[t].pc = "handler"
           /\ tasks'[t] # tasks[t]) =>
            LET alarm == Current(tasks[t])
            IN /\ ledger[alarm.id].state = "pending"
               /\ alarm.type = ledger[alarm.id].type
               /\ \E options \in TypedInputs :
                    /\ options.id = alarm.id
                    /\ options.type = alarm.type
                    /\ options.repeatInterval = alarm.repeatInterval
                    /\ JSONStringify(options.payload) =
                         JSONStringify(alarm.payload)]_vars
  /\ []((DrainSettled /\ done.outcome = "ok") =>
          /\ done.task.handled =
               [i \in 1..Len(done.task.due) |-> done.task.due[i].id]
          /\ \A i \in 1..Len(done.task.due) :
               /\ done.task.results[i].type = done.task.due[i].type
               /\ done.task.results[i].rescheduled = IsRecurring(done.task.due[i])
               /\ done.task.results[i].deleted = ~IsRecurring(done.task.due[i]))

C23_Witness ==
  /\ DrainSettled /\ done.outcome = "ok"
  /\ Len(done.task.due) = 2
  /\ \E i, j \in 1..2 :
       /\ done.task.due[i].id = "A" /\ done.task.due[i].type = "mystery"
       /\ done.task.due[i].payload = [m |-> "2"]
       /\ done.task.results[i].rescheduled
       /\ done.task.due[j].id = "R" /\ done.task.due[j].type = "mystery"
       /\ done.task.results[j].deleted
  /\ done.task.handled = <<done.task.due[1].id, done.task.due[2].id>>

\* C24: interleaved scheduling keeps the slot correct: when schedule and
\* cancel calls that were started without awaiting have all settled, the
\* deadline last passed to setAlarm and getCurrentAlarm().time equal the
\* minimum scheduled_at in the table, for every interleaving of their steps.
C24_InterleavedSlotCorrect ==
  (AllIdle /\ alarms # <<>>) =>
    /\ lastSetAlarm = MinScheduledAt(alarms)
    /\ currentAlarmTime = MinScheduledAt(alarms)
    /\ currentAlarmId # NullId

\* a schedule whose read of the earliest row came before the row of a later
\* schedule settles last
C24_Witness ==
  /\ AllIdle
  /\ alarms # <<>>
  /\ done.task.kind = "schedule"
  /\ done.outcome = "ok"
  /\ done.task.earliest = NoRow
  /\ currentAlarmTime = Null
  /\ HasRow(alarms, done.task.options.id)

\* C25: no lost wakeup: the slot holds at most one deadline, consumed when
\* it fires; whenever no operation is in flight and the table is non-empty
\* the slot holds a pending deadline <= the minimum scheduled_at, also after
\* a drain in which a handler re-inserted the alarm that was armed.
C25_NoLostWakeup ==
  (AllIdle /\ alarms # <<>>) =>
    /\ slot # Null
    /\ slot <= MinScheduledAt(alarms)

\* after a drain the table holds an alarm, the volatile pair names it, and
\* the slot is empty
C25_Witness ==
  /\ DrainSettled /\ done.outcome = "ok" /\ AllIdle
  /\ alarms # <<>>
  /\ slot = Null
  /\ currentAlarmId = getEarliestAlarm(alarms).id
  /\ currentAlarmTime = MinScheduledAt(alarms)
  /\ currentAlarmId \in Range(done.task.handled)

\* C26: the decision table of rescheduleNextAlarm: on an empty table it sets
\* currentAlarmId and currentAlarmTime to null and does not call setAlarm;
\* otherwise it calls setAlarm(earliest.scheduled_at) exactly when
\* earliest.id or earliest.scheduled_at differs from the volatile pair, and
\* afterwards getCurrentAlarm() is {earliest.id, earliest.scheduled_at}; the
\* two volatile fields are always both null or both non-null.
C26_RearmDecisionTable ==
  /\ [][\A t \in TaskIds :
          (tasks[t].pc = "arm" /\ tasks'[t].kind = "idle") =>
            LET earliest == getEarliestAlarm(alarms)
                setAlarm == done'.task.armed = tasks[t].armed + 1
            IN /\ tasks[t].earliest = earliest
               /\ done'.task.armed \in {tasks[t].armed, tasks[t].armed + 1}
               /\ IF alarms = <<>>
                  THEN /\ currentAlarmId' = NullId
                       /\ currentAlarmTime' = Null
                       /\ ~setAlarm
                  ELSE /\ setAlarm <=>
                            \/ currentAlarmId # earliest.id
                            \/ currentAlarmTime # earliest.scheduled_at
                       /\ currentAlarmId' = earliest.id
                       /\ currentAlarmTime' = earliest.scheduled_at
               /\ IF setAlarm
                  THEN /\ slot' = earliest.scheduled_at
                       /\ lastSetAlarm' = earliest.scheduled_at
                  ELSE /\ slot' = slot
                       /\ lastSetAlarm' = lastSetAlarm]_vars
  /\ [](currentAlarmId = NullId <=> currentAlarmTime = Null)

\* the rearm of a drain called setAlarm for a row whose id was armed already
\* and whose scheduled_at had changed
C26_Witness ==
  /\ DrainSettled /\ done.outcome = "ok"
  /\ done.task.armed = 1
  /\ done.task.handled = <<"R">>
  /\ alarms # <<>>
  /\ currentAlarmId = "R"
  /\ currentAlarmTime = done.task.now + 1
  /\ slot = currentAlarmTime

\* C27: if setAlarm fails inside rescheduleNextAlarm the volatile fields do
\* not claim the slot is armed for that alarm: after the failure they are
\* unchanged (so they differ from the earliest row, as they did before), and
\* a later rescheduleNextAlarm with the same earliest alarm calls setAlarm.
C27_FailedArmNotClaimed ==
  (done.outcome = "rejected" /\ done.task.pc = "arm") =>
    ~(/\ currentAlarmId = done.task.earliest.id
      /\ currentAlarmTime = done.task.earliest.scheduled_at)

\* a schedule that followed the failure found the pair equal to the earliest
\* row and returned without calling setAlarm, the slot still empty
C27_Witness ==
  /\ done.task.kind = "schedule" /\ done.outcome = "ok"
  /\ done.task.armed = 0
  /\ HasRow(alarms, done.task.options.id)
  /\ currentAlarmId = getEarliestAlarm(alarms).id
  /\ currentAlarmId # done.task.options.id
  /\ currentAlarmTime = MinScheduledAt(alarms)
  /\ slot = Null
  /\ lastSetAlarm = Null

\* C28: cancel(id) re-arms only when id equals currentAlarmId: otherwise it
\* deletes the row and returns, with no read of the earliest row, no
\* setAlarm, and currentAlarmId, currentAlarmTime and the slot unchanged;
\* cancelByType(type) deletes all and only the rows of that type and then
\* re-arms unconditionally, so that afterwards the armed pair is the
\* earliest remaining row, or null/null if none remains.
C28_CancelFrame ==
  /\ [][\A t \in TaskIds :
          LET task == tasks[t]
          IN /\ (/\ task.kind = "cancel" /\ task.pc = "delete"
                 /\ tasks'[t].pc # "delete") =>
                  /\ alarms' = SelectSeq(alarms, LAMBDA r : r.id # task.id)
                  /\ tasks'[t].pc = "check"
                  /\ UNCHANGED armVars
             /\ (/\ task.kind = "cancel" /\ task.pc = "check"
                 /\ tasks'[t] # task) =>
                  IF currentAlarmId = task.id
                  THEN /\ tasks'[t].pc = "arm"
                       /\ tasks'[t].earliest = getEarliestAlarm(alarms)
                  ELSE /\ tasks'[t].kind = "idle"
                       /\ done'.outcome = "ok"
                       /\ done'.task.armed = 0
                       /\ done'.task.earliest = NoRow
                       /\ UNCHANGED <<alarms, armVars>>
             /\ (/\ task.kind = "cancelByType" /\ task.pc = "deleteByType"
                 /\ tasks'[t].pc # "deleteByType") =>
                  /\ alarms' = SelectSeq(alarms, LAMBDA r : r.type # task.type)
                  /\ tasks'[t].pc = "earliest"]_vars
  /\ [](done.task.kind = "cancelByType" =>
          /\ done.outcome = "ok"
          /\ done.task.pc = "arm"
          /\ \A i \in 1..Len(alarms) : alarms[i].type # done.task.type
          /\ currentAlarmId = getEarliestAlarm(alarms).id
          /\ currentAlarmTime = getEarliestAlarm(alarms).scheduled_at)

\* a cancel of an alarm that was not the armed one has returned: its row is
\* gone, the armed alarm and the slot are as they were
C28_Witness ==
  /\ done.task.kind = "cancel" /\ done.outcome = "ok"
  /\ done.task.pc = "check"
  /\ ledger[done.task.id].state = "canceled"
  /\ ~HasRow(alarms, done.task.id)
  /\ alarms # <<>>
  /\ currentAlarmId = getEarliestAlarm(alarms).id
  /\ slot = currentAlarmTime

\* C29: getPendingAlarms and getDueAlarms are read-only: they leave the
\* table, currentAlarmId, currentAlarmTime and the slot unchanged;
\* getPendingAlarms returns every row and getDueAlarms(before) exactly the
\* rows with scheduled_at <= before, both in ascending scheduled_at order
\* with the payload parsed.
Ascending(list) ==
  \A i, j \in 1..Len(list) : i < j => list[i].scheduledAt <= list[j].scheduledAt

ExactlyTheRows(list, ids) ==
  /\ {list[i].id : i \in 1..Len(list)} = ids
  /\ Len(list) = Cardinality(ids)
  /\ \A i \in 1..Len(list) :
       list[i] = parseAlarmRecord(RowOf(alarms, list[i].id))

C29_ReadsAreReadOnly ==
  /\ [][(\E t \in TaskIds :
           tasks[t].kind \in {"getPendingAlarms", "getDueAlarms"}) =>
          UNCHANGED <<alarms, armVars>>]_vars
  /\ [](done.task.kind = "getPendingAlarms" =>
          /\ done.outcome = "ok"
          /\ ExactlyTheRows(done.task.due, RowIds(alarms))
          /\ Ascending(done.task.due))
  /\ [](done.task.kind = "getDueAlarms" =>
          /\ done.outcome = "ok"
          /\ ExactlyTheRows(done.task.due,
                            {id \in RowIds(alarms) :
                               RowOf(alarms, id).scheduled_at <= done.task.now})
          /\ Ascending(done.task.due))

\* getDueAlarms(0) returned one of three rows, the last one inserted, while
\* the slot is armed
C29_Witness ==
  /\ done.task.kind = "getDueAlarms" /\ done.outcome = "ok"
  /\ done.task.now = 0
  /\ Len(alarms) = 3
  /\ Len(done.task.due) = 1
  /\ done.task.due[1].id = alarms[3].id
  /\ slot = 0 /\ currentAlarmId = alarms[3].id

\* C30: updateAlarm changes only scheduled_at, repeat_interval and payload of
\* the row with the given id (id, type, created_at and every other row
\* unchanged) and inserts nothing when the id is absent; deleteAlarm removes
\* the row if present and succeeds leaving the table unchanged if absent, so
\* deleting twice equals deleting once.
Without(tbl, id) ==
  LET at == CHOOSE i \in 1..Len(tbl) : tbl[i].id = id
  IN [i \in 1..(Len(tbl) - 1) |-> IF i < at THEN tbl[i] ELSE tbl[i + 1]]

C30_RowOperations ==
  /\ done.task.kind = "updateAlarm" =>
       LET before == done.task.due
           options == done.task.options
       IN /\ done.outcome = "ok"
          /\ Len(alarms) = Len(before)
          /\ \A i \in 1..Len(before) :
               IF before[i].id = options.id
               THEN /\ alarms[i].id = before[i].id
                    /\ alarms[i].type = before[i].type
                    /\ alarms[i].created_at = before[i].created_at
                    /\ alarms[i].scheduled_at = options.scheduledAt
                    /\ alarms[i].repeat_interval = options.repeatInterval
                    /\ alarms[i].payload = JSONStringify(options.payload)
               ELSE alarms[i] = before[i]
  /\ done.task.kind = "deleteAlarm" =>
       LET before == done.task.due
       IN /\ done.outcome = "ok"
          /\ ~HasRow(alarms, done.task.id)
          /\ alarms = IF HasRow(before, done.task.id)
                      THEN Without(before, done.task.id) ELSE before
          /\ deleteAlarm(alarms, done.task.id) = alarms

\* updateAlarm moved A, the first of two rows, behind R and made it recurring
C30_Witness ==
  /\ done.task.kind = "updateAlarm" /\ done.task.options.id = "A"
  /\ Len(alarms) = 2 /\ alarms[1].id = "A"
  /\ done.task.due[1].scheduled_at = 0 /\ done.task.due[1].repeat_interval = Null
  /\ alarms[1].scheduled_at = 1 /\ alarms[1].repeat_interval = 1
  /\ alarms[1].type = "custom"
  /\ alarms[1].payload # done.task.due[1].payload
  /\ alarms[2] = done.task.due[2]

\* updateAlarm ran for A while only R was stored
C30_WitnessAbsentUpdate ==
  /\ done.task.kind = "updateAlarm" /\ done.task.options.id = "A"
  /\ RowIds(done.task.due) = {"R"}

\* deleteAlarm ran for A, stored between two deletes of A, and again
C30_WitnessAbsentDelete ==
  /\ done.task.kind = "deleteAlarm" /\ done.task.id = "A"
  /\ RowIds(done.task.due) = {"R"}
  /\ ledger["A"].state = "pending"

\* C31: key formation and exact cancellation: the adapter's schedule(source,
\* target, event, delay, key) inserts the row "xstate-" + source.sessionId +
\* "." + key with type xstate-delay and scheduled_at = now + delay and
\* records the index entry source.sessionId + "." + key; a later
\* cancel(source, key) removes exactly that entry and that row and no other,
\* for every session and key, keys with dots included.
SameExcept(m, n, c) ==
  /\ DOMAIN n = DOMAIN m \ {c}
  /\ \A x \in DOMAIN n : n[x] = m[x]

C31_KeyFormationExactCancel ==
  /\ [](/\ done.task.kind = "schedule" /\ done.task.composed # ""
        /\ done.outcome = "ok"
        => LET c == done.task.composed
               entry == scheduledEventsMap[c]
               id == "xstate-" \o entry.sourceSessionId \o "." \o entry.id
           IN /\ c \in DOMAIN scheduledEventsMap
              /\ c = entry.sourceSessionId \o "." \o entry.id
              /\ done.task.options.payload.sourceSessionId = entry.sourceSessionId
              /\ HasRow(alarms, id)
              /\ RowOf(alarms, id).type = "xstate-delay"
              /\ RowOf(alarms, id).scheduled_at = entry.startedAt + entry.delay
              /\ Cardinality({i \in 1..Len(alarms) : alarms[i].id = id}) = 1)
  /\ [][(\E t \in TaskIds : tasks[t].kind = "idle" /\ tasks'[t].kind = "cancel")
        => \A s \in Sessions, k \in Keys \cup DottedKeys :
             (\E t \in TaskIds : AdapterCancel(t, s, k)) =>
               /\ SameExcept(scheduledEventsMap, scheduledEventsMap',
                             s \o "." \o k)
               /\ alarms' = alarms
               /\ \E t \in TaskIds :
                    /\ tasks'[t].kind = "cancel"
                    /\ tasks'[t].id = "xstate-" \o s \o "." \o k]_vars
  /\ [][\A t \in TaskIds :
          tasks[t].kind = "cancel" /\ tasks[t].pc = "delete"
          /\ tasks'[t].pc # "delete" =>
            /\ alarms' = SelectSeq(alarms, LAMBDA r : r.id # tasks[t].id)
            /\ scheduledEventsMap' = scheduledEventsMap]_vars
  /\ [](done.task.kind = "cancel" =>
          /\ done.outcome = "ok"
          /\ ~HasRow(alarms, done.task.id))

\* cancel(s1, "k.x") settled: its row and entry are gone, those of (s1, "k")
\* and (s2, "k.x") are still there
C31_Witness ==
  /\ done.task.kind = "cancel" /\ done.task.id = "xstate-s1.k.x"
  /\ ledger["xstate-s1.k.x"].state = "canceled"
  /\ RowIds(alarms) = {"xstate-s1.k", "xstate-s2.k.x"}
  /\ DOMAIN scheduledEventsMap = {"s1.k", "s2.k.x"}
  /\ scheduledEventsMap["s2.k.x"].id = "k.x"

\* C32: when alarmManager.schedule rejects inside the adapter's schedule, the
\* rejection reaches no other call and the index entry of that composed id
\* is removed, so that after a failed schedule the index has no entry for an
\* alarm that is not in the table.
C32_FailedScheduleDropsEntry ==
  /\ [](/\ done.task.kind = "schedule" /\ done.task.composed # ""
        /\ done.outcome = "rejected"
        => done.task.composed \notin DOMAIN scheduledEventsMap)
  /\ [][\A t \in TaskIds :
          /\ tasks[t].kind = "schedule" /\ tasks[t].composed # ""
          /\ tasks'[t].kind = "idle" /\ done'.outcome = "rejected"
          => /\ \A u \in TaskIds \ {t} : tasks'[u] = tasks[u]
             /\ SameExcept(scheduledEventsMap, scheduledEventsMap',
                           tasks[t].composed)]_vars
  /\ [](AllIdle =>
          \A c \in DOMAIN scheduledEventsMap : HasRow(alarms, "xstate-" \o c))

\* the insert of schedule(s1, k) committed, setAlarm then failed: the call
\* rejected, the row is stored and the index has no entry
C32_Witness ==
  /\ done.task.kind = "schedule" /\ done.task.composed = "s1.k"
  /\ done.outcome = "rejected" /\ done.task.pc = "arm"
  /\ HasRow(alarms, "xstate-s1.k")
  /\ scheduledEventsMap = <<>>
  /\ AllIdle

\* C33: index/table consistency: whenever no adapter or AlarmManager call is
\* in flight, the index has an entry under composed id c if and only if the
\* table holds a not yet delivered xstate-delay row "xstate-" + c scheduled
\* through the adapter, after any sequence of adapter schedules (a schedule
\* that fails on a duplicate key included) and cancels.
C33_IndexMatchesTable ==
  AllIdle =>
    \A p \in KeyedPairs :
      LET c == p[1] \o "." \o p[2]
      IN c \in DOMAIN scheduledEventsMap <=>
           /\ HasRow(alarms, "xstate-" \o c)
           /\ RowOf(alarms, "xstate-" \o c).type = "xstate-delay"

\* schedule(s1, k) was repeated while its row was stored: the second call
\* rejected on the duplicate id and settled
C33_Witness ==
  /\ done.task.kind = "schedule" /\ done.task.composed = "s1.k"
  /\ done.outcome = "rejected" /\ done.task.pc = "insert"
  /\ HasRow(alarms, "xstate-s1.k")
  /\ ledger["xstate-s1.k"].state = "pending"
  /\ AllIdle

\* C34: cancelAll(actorRef) removes every index entry whose sourceSessionId
\* is actorRef.sessionId and calls AlarmManager.cancel on "xstate-" + its
\* composed id, and leaves the index entries and the rows of every other
\* source session unchanged.
CancelsInFlight ==
  {tasks[t].id : t \in {u \in TaskIds : tasks[u].kind = "cancel"}}

C34_CancelAllFrame ==
  /\ [][(\E t \in TaskIds : tasks[t].kind = "idle" /\ tasks'[t].kind = "cancel")
        => \A s \in Sessions :
             AdapterCancelAll(s) =>
               LET mine == {c \in DOMAIN scheduledEventsMap :
                              scheduledEventsMap[c].sourceSessionId = s}
               IN /\ DOMAIN scheduledEventsMap' = DOMAIN scheduledEventsMap \ mine
                  /\ \A c \in DOMAIN scheduledEventsMap' :
                       scheduledEventsMap'[c] = scheduledEventsMap[c]
                  /\ alarms' = alarms
                  /\ {tasks'[t].id : t \in {u \in TaskIds : tasks'[u].kind = "cancel"}}
                       = {"xstate-" \o c : c \in mine}
                  /\ Cardinality({u \in TaskIds : tasks'[u].kind = "cancel"})
                       = Cardinality(mine)]_vars
  /\ [][CancelsInFlight # {} =>
          /\ SelectSeq(alarms', LAMBDA r : r.id \notin CancelsInFlight)
               = SelectSeq(alarms, LAMBDA r : r.id \notin CancelsInFlight)
          /\ scheduledEventsMap' = scheduledEventsMap]_vars
  /\ [](done.task.kind = "cancel" => ~HasRow(alarms, done.task.id))

\* cancelAll(s1) found the entries of (s1, k) and (s1, k.x): both cancels are
\* in flight, the entry and the row of (s2, k.x) are in place
C34_Witness ==
  /\ CancelsInFlight = {"xstate-s1.k", "xstate-s1.k.x"}
  /\ DOMAIN scheduledEventsMap = {"s2.k.x"}
  /\ HasRow(alarms, "xstate-s2.k.x")
  /\ Len(alarms) = 3

\* both cancels of cancelAll(s1) settled: only the row of s2 is left
C34_WitnessSettled ==
  /\ AllIdle /\ done.task.kind = "cancel"
  /\ ledger["xstate-s1.k"].state = "canceled"
  /\ ledger["xstate-s1.k.x"].state = "canceled"
  /\ RowIds(alarms) = {"xstate-s2.k.x"}
  /\ DOMAIN scheduledEventsMap = {"s2.k.x"}

\* C35: after cancelAll(actorRef) and the cancels it starts have completed,
\* no xstate-delay row whose payload.sourceSessionId is actorRef.sessionId
\* remains in the table, also when the index was rebuilt by
\* restoreScheduledEvents after a cold start while some of the actor's alarms
\* were already overdue.
RowsOfSession(tbl, sessionId) ==
  {i \in 1..Len(tbl) :
     /\ tbl[i].type = "xstate-delay"
     /\ JSONParse(tbl[i].payload).sourceSessionId = sessionId}

C35_CancelAllLeavesNoRow ==
  rt.stage = "cancelAll" /\ AllIdle => RowsOfSession(alarms, rt.id) = {}

\* cancelAll(s1) after a cold start whose restore skipped the overdue row of
\* (s1, k): the index is empty, the row is stored and armed
C35_Witness ==
  /\ rt.stage = "cancelAll" /\ rt.id = "s1" /\ AllIdle /\ ~cold
  /\ scheduledEventsMap = <<>>
  /\ HasRow(alarms, "xstate-s1.k")
  /\ RowOf(alarms, "xstate-s1.k").scheduled_at < now
  /\ currentAlarmId = "xstate-s1.k"

\* C36: cold-start restore: restoreScheduledEvents on the empty index leaves
\* exactly one entry per xstate-delay alarm with scheduled_at > now, keyed by
\* payload.scheduledEventId with the payload's source and target session ids
\* and event, and none for an alarm with scheduled_at <= now; it does not
\* touch the table; a following drain delivers and deletes the overdue rows
\* and leaves the slot armed at the earliest future row.
FutureDelayed(tbl, t) ==
  {i \in 1..Len(tbl) : tbl[i].type = "xstate-delay" /\ tbl[i].scheduled_at > t}

C36_ColdStartRestore ==
  /\ [][\A t \in TaskIds :
          /\ tasks[t].kind = "restore" /\ tasks[t].pc = "list"
          /\ tasks'[t].pc = "earliest"
          => /\ scheduledEventsMap = <<>>
             /\ alarms' = alarms
             /\ DOMAIN scheduledEventsMap' =
                  {JSONParse(alarms[i].payload).scheduledEventId :
                     i \in FutureDelayed(alarms, now)}
             /\ \A i \in FutureDelayed(alarms, now) :
                  LET p == JSONParse(alarms[i].payload)
                      entry == scheduledEventsMap'[p.scheduledEventId]
                  IN /\ entry.sourceSessionId = p.sourceSessionId
                     /\ entry.targetSessionId = p.targetSessionId
                     /\ entry.event = p.event]_vars
  /\ [](DrainSettled =>
          /\ done.outcome = "ok"
          /\ \A i \in 1..Len(alarms) : alarms[i].scheduled_at > done.task.now
          /\ \A i \in 1..Len(done.task.due) :
               /\ done.task.due[i].id \in Range(done.task.handled)
               /\ ~HasRow(alarms, done.task.due[i].id)
          /\ alarms # <<>> =>
               /\ slot = MinScheduledAt(alarms)
               /\ currentAlarmTime = MinScheduledAt(alarms))

\* restore at now = 1 found the overdue row of (s1, k) and the future row of
\* (s1, k.x) and restored only the latter
C36_WitnessRestore ==
  /\ \E t \in TaskIds : tasks[t].kind = "restore" /\ tasks[t].pc = "earliest"
  /\ now = 1
  /\ Len(alarms) = 2
  /\ RowOf(alarms, "xstate-s1.k").scheduled_at = 0
  /\ RowOf(alarms, "xstate-s1.k.x").scheduled_at = 2
  /\ DOMAIN scheduledEventsMap = {"s1.k.x"}
  /\ scheduledEventsMap["s1.k.x"].targetSessionId = "s2"

\* the drain after that cold start delivered and deleted the overdue row and
\* left the slot armed for the future row, whose entry is still restored
C36_Witness ==
  /\ DrainSettled /\ done.task.now = 1
  /\ Len(done.task.due) = 1 /\ done.task.due[1].id = "xstate-s1.k"
  /\ RowIds(alarms) = {"xstate-s1.k.x"}
  /\ slot = 2
  /\ DOMAIN scheduledEventsMap = {"s1.k.x"}
  /\ scheduledEventsMap["s1.k.x"].id = DottedTail

\* C37: delivery step: handleXStateAlarm first removes the index entry of
\* payload.scheduledEventId, then delivers the event exactly once, through
\* _relay when the relay exists and through send otherwise, never both; an
\* error thrown by the delivery is not propagated and not retried, and the
\* index entry stays removed.
CallsFor(task, c) ==
  {i \in 1..Len(task.delivered) : task.delivered[i].id = c}

C37_DeliveryStep ==
  /\ [][\A t \in TaskIds :
          /\ tasks[t].kind = "drain" /\ tasks[t].pc = "handler"
          /\ tasks'[t] # tasks[t]
          => LET p == Current(tasks[t]).payload
                 made == SubSeq(tasks'[t].delivered,
                                Len(tasks[t].delivered) + 1,
                                Len(tasks'[t].delivered))
             IN /\ p.scheduledEventId \notin DOMAIN scheduledEventsMap'
                /\ Len(made) = 1
                /\ made[1].event = p.event
                /\ made[1].via = IF made[1].relay THEN "relay" ELSE "send"
                /\ tasks'[t].threw = tasks[t].threw
                /\ tasks'[t].kind = "drain"]_vars
  /\ [](DrainSettled =>
          /\ done.outcome = "ok"
          /\ done.task.threw = {}
          /\ \A i \in 1..Len(done.task.due) :
               LET c == done.task.due[i].payload.scheduledEventId
               IN /\ Cardinality(CallsFor(done.task, c)) = 1
                  /\ c \notin DOMAIN scheduledEventsMap
                  /\ ~HasRow(alarms, done.task.due[i].id))

\* a drain delivered two delayed events: the first through _relay, which
\* threw, the second through send
C37_Witness ==
  /\ DrainSettled /\ Len(done.task.delivered) = 2
  /\ done.task.delivered[1].via = "relay" /\ done.task.delivered[1].threw
  /\ done.task.delivered[2].via = "send" /\ ~done.task.delivered[2].threw
  /\ done.task.delivered[1].id # done.task.delivered[2].id
  /\ scheduledEventsMap = <<>>
  /\ alarms = <<>>

\* C38: drain result well-formedness: handleDueAlarms returns exactly one
\* record per alarm that was due at entry, with pairwise distinct ids and the
\* alarm's id and type; in each record exactly one of rescheduled and deleted
\* is true, rescheduled exactly when the alarm has a non-zero
\* repeat_interval; and at the end of the drain deleted = true means the row
\* is absent and rescheduled = true means the row is present.
RecordsMatchDue(task) ==
  /\ Len(task.results) = Len(task.due)
  /\ \A i, j \in 1..Len(task.results) :
       i # j => task.results[i].id # task.results[j].id
  /\ \A i \in 1..Len(task.results) :
       LET r == task.results[i]
           a == task.due[i]
       IN /\ r.id = a.id /\ r.type = a.type
          /\ r.rescheduled # r.deleted
          /\ r.rescheduled <=> (a.repeatInterval # Null /\ a.repeatInterval # 0)

C38_ResultsWellFormed ==
  (DrainSettled /\ done.outcome = "ok") =>
    /\ RecordsMatchDue(done.task)
    /\ \A i \in 1..Len(done.task.results) :
         LET r == done.task.results[i]
         IN /\ r.deleted => ~HasRow(alarms, r.id)
            /\ r.rescheduled => HasRow(alarms, r.id)

\* C38 as amended: the records are as stated, and deleted = true means the
\* drain deleted the row, which is absent at the end of the drain unless a
\* handler of that drain scheduled the id again; rescheduled = true means the
\* drain moved the row, which is present unless the id was canceled during
\* the drain.
C38_ResultsReportMutation ==
  (DrainSettled /\ done.outcome = "ok") =>
    /\ RecordsMatchDue(done.task)
    /\ \A i \in 1..Len(done.task.results) :
         LET r == done.task.results[i]
         IN /\ (r.deleted /\ HasRow(alarms, r.id)) =>
                 \E p \in done.task.scheduled : p[1] = r.id
            /\ (r.rescheduled /\ ~HasRow(alarms, r.id)) =>
                 ledger[r.id].state = "canceled"

\* a drain returned a deleted record for A and a rescheduled record for R;
\* A's handler had scheduled A again and its row is stored
C38_Witness ==
  /\ DrainSettled /\ done.outcome = "ok"
  /\ Len(done.task.results) = 2
  /\ \E i \in 1..2 : /\ done.task.results[i].id = "A"
                     /\ done.task.results[i].deleted
  /\ \E i \in 1..2 : /\ done.task.results[i].id = "R"
                     /\ done.task.results[i].rescheduled
  /\ HasRow(alarms, "A") /\ HasRow(alarms, "R")
  /\ \E p \in done.task.scheduled : p[1] = "A"

\* C39: calculateNextRecurringAlarm(baseTime, interval, now) terminates for
\* every input and returns the smallest value baseTime + k*interval (k >= 0
\* integer) that is >= now; it returns baseTime itself when baseTime >= now.
CalcReturned == tasks[1].pc = "returned"

MaxMultiple == 2 * MaxTime + 6

SmallestAtOrAfter(v, baseTime, interval, at) ==
  /\ v >= at
  /\ \E k \in 0..MaxMultiple : v = baseTime + k * interval
  /\ \A j \in 0..MaxMultiple :
       baseTime + j * interval >= at => v <= baseTime + j * interval

C39_TerminatesWithNext ==
  /\ <>CalcReturned
  /\ [](CalcReturned =>
          /\ SmallestAtOrAfter(tasks[1].next, tasks[1].baseTime,
                               tasks[1].interval, tasks[1].now)
          /\ (tasks[1].baseTime >= tasks[1].now =>
                tasks[1].next = tasks[1].baseTime))

\* a call with interval 0 has run an iteration and is at the head of the loop
\* with next still below now
C39_Witness ==
  /\ tasks[1].kind = "calculateNextRecurringAlarm"
  /\ tasks[1].pc = "while"
  /\ tasks[1].interval = 0
  /\ tasks[1].odd
  /\ tasks[1].next = tasks[1].baseTime
  /\ tasks[1].next < tasks[1].now

\* within positive intervals the call returns the value the claim names
C39_ReturnsNextForPositive ==
  (CalcReturned /\ tasks[1].interval > 0) =>
    /\ SmallestAtOrAfter(tasks[1].next, tasks[1].baseTime,
                         tasks[1].interval, tasks[1].now)
    /\ (tasks[1].baseTime >= tasks[1].now => tasks[1].next = tasks[1].baseTime)

====
